---- MODULE Spec2Model ----
(***************************************************************************)
(* Model of ki's reconciliation pipelines (src/ki/__init__.py): the        *)
(* SQLite lock, the checkpoint ledger (.ki/hashes), the backups directory, *)
(* the checkpoint tag, and the push and pull commands, run by concurrent   *)
(* command invocations against one collection file and one repository.     *)
(***************************************************************************)
EXTENDS Integers, Sequences, FiniteSets, TLC

(***************************************************************************)
(* Bounds of the model.                                                    *)
(***************************************************************************)
MaxEvents == 4
MaxConcurrentEvents == 3
MaxDeckEvents == 5
MaxFields == 2

Procs == {1, 2}
GUIDs == {"g1", "g2"}
Txts == {"a", "b"}
UserSlug == "u"

None == "none"

(***************************************************************************)
(* Program constants.                                                      *)
(***************************************************************************)
(* The notetypes of the collection a repository is cloned from.  A         *)
(* notetype is [flds, rev]: the ordered names of its fields, and rev for   *)
(* all the rest of its content (templates, styling).                       *)
BasicFlds == <<"Front", "Back">>
BasicType == [flds |-> BasicFlds, rev |-> 0]
DbModels == ("Basic" :> BasicType)

(***************************************************************************)
(* Values.  A note of the collection is [nid, guid, txt, model, deck]; txt *)
(* is the note's first (sort) field and deck the full name of the deck of  *)
(* its cards.  A note file is [guid, txt, model, keys] at a path           *)
(* <<dir, slug, i>> standing for "<dir>/<slug>.md" (i = 0) or              *)
(* "<dir>/<slug>_<i>.md", where dir is the sequence of the directory's     *)
(* parts and keys the ordered names of the file's field sections.          *)
(* The collection file is [notes, mod, models]: mod is the modification    *)
(* stamp the database engine writes with every save, so two saves never    *)
(* produce the same bytes; models gives the notetype of each notetype      *)
(* name.                                                                   *)
(***************************************************************************)
Content(col, n) ==
    [guid |-> n.guid, txt |-> n.txt, model |-> n.model,
     keys |-> col.models[n.model].flds]

FileContents ==
    [guid : GUIDs, txt : Txts, model : {"Basic"}, keys : {BasicFlds}]
    \cup {[guid |-> "g2", txt |-> "b", model |-> "Nope", keys |-> BasicFlds]}

Range(f) == {f[x] : x \in DOMAIN f}

(* The directories of the tree, in the order of their path names.          *)
DefaultDir == <<"Default">>
Dirs == <<DefaultDir, <<"aa", "dd">>>>

(* parse_note, lines 408-409: "::".join(delta.relpath.parent.parts).       *)
RECURSIVE Join(_)
Join(parts) ==
    IF parts = <<>> THEN ""
    ELSE IF Len(parts) = 1 THEN parts[1]
    ELSE parts[1] \o "::" \o Join(Tail(parts))

(* The directory the deck tree gives a deck: one part for each component   *)
(* of the deck's full name.                                                *)
DeckDir(name) == CHOOSE d \in Range(Dirs) : Join(d) = name

UserPaths == {<<DefaultDir, "a", 0>>, <<DefaultDir, "b", 0>>,
              <<DefaultDir, UserSlug, 0>>}

DirRank(d) == CHOOSE i \in DOMAIN Dirs : Dirs[i] = d

SlugRank(s) ==
    IF s = "a" THEN 0 ELSE IF s = "b" THEN 1 ELSE IF s = UserSlug THEN 2 ELSE 3

PathLess(p, q) ==
    \/ DirRank(p[1]) < DirRank(q[1])
    \/ /\ p[1] = q[1]
       /\ \/ SlugRank(p[2]) < SlugRank(q[2])
          \/ SlugRank(p[2]) = SlugRank(q[2]) /\ p[3] < q[3]

(* F.md5: the digest of the collection file's bytes, taken collision free. *)
md5(col) == [digest |-> col]

(* A line of .ki/hashes is "<md5>  <tag>"; the tag is the collection's     *)
(* file name, which is either a plain name or, for a collection cloned     *)
(* from a backup file, "<md5 of some collection>.anki2".                   *)
NoCol == [notes |-> {}, mod |-> -1, models |-> <<>>]
NoHash == md5(NoCol)
PlainName == [kind |-> "plain", h |-> NoHash]
Md5Name(h) == [kind |-> "md5", h |-> h]
HashLine(h, name) == [md5 |-> h, tag |-> name]

(* `md5sum in hashes[-1]`: substring containment in the whole last line.   *)
LineContains(line, h) ==
    \/ line.md5 = h
    \/ line.tag.kind = "md5" /\ line.tag.h = h

Last(s) == s[Len(s)]

(***************************************************************************)
(* write_repository / write_decks / get_note_path: the tree a clone of the *)
(* collection writes.  Notes are written in id order, each exactly once,   *)
(* in the directory of its deck, at the slug of its sort field, with       *)
(* "_<i>" appended while the path is taken.                                *)
(***************************************************************************)
RECURSIVE SeqByNid(_)
SeqByNid(S) ==
    IF S = {} THEN <<>>
    ELSE LET m == CHOOSE n \in S : \A k \in S : n.nid <= k.nid
         IN <<m>> \o SeqByNid(S \ {m})

get_note_path(s, i) ==
    <<DeckDir(s[i].deck), s[i].txt,
      Cardinality({j \in 1..(i - 1) :
                      s[j].txt = s[i].txt /\ s[j].deck = s[i].deck})>>

write_repository(col) ==
    LET s == SeqByNid(col.notes)
        ps == {get_note_path(s, i) : i \in DOMAIN s}
    IN [p \in ps |->
          LET i == CHOOSE j \in DOMAIN s : get_note_path(s, j) = p
          IN Content(col, s[i])]

(***************************************************************************)
(* Diff Engine (diff2 / mungediff).  The version-control system's diff of  *)
(* two trees: paths only in a are deleted, paths only in b are added,      *)
(* paths in both with different content are modified, and rename detection *)
(* pairs deleted paths with added paths: files of identical content are    *)
(* paired first, then the rest by a similarity score the model does not    *)
(* compute.  Every pairing in which a deleted path and an added path of    *)
(* identical content are not both left to an inexact pair or unpaired is a *)
(* possible outcome.                                                       *)
(***************************************************************************)
ADDED == "A"
DELETED == "D"
MODIFIED == "M"
RENAMED == "R"

DiffDeleted(a, b) == DOMAIN a \ DOMAIN b
DiffAdded(a, b) == DOMAIN b \ DOMAIN a
DiffModified(a, b) == {p \in DOMAIN a \cap DOMAIN b : a[p] /= b[p]}

RenamePairings(a, b) ==
    LET D == DiffDeleted(a, b)
        A == DiffAdded(a, b)
        Cands == UNION {[S -> A] : S \in SUBSET D}
        Exact(r, x) == x \in DOMAIN r /\ a[x] = b[r[x]]
    IN {r \in Cands :
          /\ \A x, y \in DOMAIN r : r[x] = r[y] => x = y
          /\ \A x \in D : \A y \in A :
                a[x] = b[y] =>
                   \/ Exact(r, x)
                   \/ \E z \in DOMAIN r : r[z] = y /\ Exact(r, z)}

RECURSIVE SortPaths(_)
SortPaths(S) ==
    IF S = {} THEN <<>>
    ELSE LET m == CHOOSE p \in S : \A q \in S \ {p} : PathLess(p, q)
         IN <<m>> \o SortPaths(S \ {m})

Delta(status, path, note) == [status |-> status, path |-> path, note |-> note]

(* get_guid, lines 393-395: "__".join(fields).                             *)
RECURSIVE JoinFields(_)
JoinFields(fields) ==
    IF fields = <<>> THEN ""
    ELSE IF Len(fields) = 1 THEN fields[1]
    ELSE fields[1] \o "__" \o JoinFields(Tail(fields))

(* The field texts get_guid is examined on, besides those of the notes:    *)
(* texts of one byte whose GUIDs have no character that a string of this   *)
(* language cannot hold.                                                   *)
FieldTexts == {"a", "d"}

(* get_guid, lines 393-402: the first 8 bytes of the SHA-256 of the joined *)
(* fields, as a number written in base 91 with BASE91_TABLE.  The values   *)
(* are those the function returns for lists of up to three field texts.    *)
BlankGuids ==
    ("b" :> "kQq[ENXzu#") @@
    ("a" :> "IkF(BOZ;]l") @@
    ("d" :> "eogabgYqio") @@
    ("a__a" :> "Dx(q9S}d3C") @@
    ("a__d" :> "tgFX907)LL") @@
    ("d__a" :> "e]+q_#}jRW") @@
    ("d__d" :> "pZ^h/twcWh") @@
    ("a__a__a" :> "Juzad$_lxf") @@
    ("a__a__d" :> "k/{y3!NoHy") @@
    ("a__d__a" :> "HO5|!;ZGic") @@
    ("a__d__d" :> "jdHO%bHe]w") @@
    ("d__a__a" :> "Dp26F^@k|G") @@
    ("d__a__d" :> "qYce=vnm3*") @@
    ("d__d__a" :> "&6>aI[c%]") @@
    ("d__d__d" :> "xLK-Yc-1RX")

(* A get_guid that hashes the first field only.                            *)
get_guid_first(fields) == BlankGuids[fields[1]]

get_guid(fields) == BlankGuids[JoinFields(fields)]

(* The fields of a note file: the model's notes have one.                  *)
Fields(note) == <<note.txt>>

(* parse_note, line 408: parser.parse raises lark's UnexpectedInput on a    *)
(* file the grammar rejects; nothing catches it.  Such a file is one whose *)
(* lines after the guid line are not those of a note: it has no fields to  *)
(* read, which the text Unparsable stands for.                             *)
Unparsable == "?"
parses(note) == note.txt /= Unparsable

(* parse_note: the record a Delta's file parses to, its deck named after   *)
(* the directories above the file and its GUID derived from the fields if  *)
(* the file has none.                                                      *)
parse(d) ==
    [guid |-> IF d.note.guid /= "" THEN d.note.guid
              ELSE get_guid(Fields(d.note)),
     txt |-> d.note.txt, model |-> d.note.model,
     deck |-> Join(d.path[1]), keys |-> d.note.keys]

(* A mungediff that takes every rename apart into a deletion and an        *)
(* addition, whatever the GUIDs.                                           *)
mungediff_split(a, b, r, p) ==
    IF p \in DiffDeleted(a, b) /\ p \notin DOMAIN r
    THEN <<Delta(DELETED, p, a[p])>>
    ELSE IF p \in Range(r)
    THEN LET o == CHOOSE x \in DOMAIN r : r[x] = p
         IN <<Delta(DELETED, o, a[o]), Delta(ADDED, p, b[p])>>
    ELSE IF p \in DiffAdded(a, b)
    THEN <<Delta(ADDED, p, b[p])>>
    ELSE <<Delta(MODIFIED, p, b[p])>>

(* mungediff for the diff entry whose (new side) path is p.                *)
mungediff(a, b, r, p) ==
    IF p \in DiffDeleted(a, b) /\ p \notin DOMAIN r
    THEN <<Delta(DELETED, p, a[p])>>
    ELSE IF p \in Range(r)
    THEN LET o == CHOOSE x \in DOMAIN r : r[x] = p
             a_delta == Delta(DELETED, o, a[o])
             b_delta == Delta(ADDED, p, b[p])
         IN IF parse(a_delta).guid /= parse(b_delta).guid
            THEN <<a_delta, b_delta>>
            ELSE <<Delta(RENAMED, p, b[p])>>
    ELSE IF p \in DiffAdded(a, b)
    THEN <<Delta(ADDED, p, b[p])>>
    ELSE <<Delta(MODIFIED, p, b[p])>>

(* mungediff, lines 334-337: both files of a rename are parsed.            *)
mungediff_raises(a, b, r) ==
    \E o \in DOMAIN r : ~parses(a[o]) \/ ~parses(b[r[o]])

RECURSIVE Chain(_, _, _, _)
Chain(a, b, r, ps) ==
    IF ps = <<>> THEN <<>>
    ELSE mungediff(a, b, r, Head(ps)) \o Chain(a, b, r, Tail(ps))

diff2(a, b, r) ==
    LET keys == (DiffDeleted(a, b) \ DOMAIN r) \cup DiffAdded(a, b)
                    \cup DiffModified(a, b)
    IN Chain(a, b, r, SortPaths(keys))

(***************************************************************************)
(* write_collection, the part that mutates the temporary copy of the       *)
(* collection: deletions first, then push_note for every other Delta.      *)
(***************************************************************************)
get_note_metadata(col) ==
    [g \in {n.guid : n \in col.notes} |->
        LET ns == {n \in col.notes : n.guid = g}
        IN (CHOOSE n \in ns : \A k \in ns : k.nid <= n.nid).nid]

(* Note.fields_check of the engine, by what it answers: 1 for a note     *)
(* whose first field is empty, else 3 for a note of a cloze notetype       *)
(* without a cloze deletion (no text here has one), else 2 when another    *)
(* note of the same notetype has the same first field, else 0.             *)
fields_check(notes, nid) ==
    LET me == CHOOSE n \in notes : n.nid = nid
    IN IF me.txt = "" THEN 1
       ELSE IF me.model = "Cloze" THEN 3
       ELSE IF \E m \in notes :
                  m.nid /= nid /\ m.txt = me.txt /\ m.model = me.model
       THEN 2
       ELSE 0

(* check_fields_health, lines 376-386.                                     *)
check_fields_health(notes, nid) ==
    LET note == CHOOSE n \in notes : n.nid = nid
        health == fields_check(notes, nid)
    IN IF health = 1
       THEN {[kind |-> "EmptyNoteWarning", about |-> note.guid]}
       ELSE IF health = 2
       THEN {[kind |-> "DuplicateNoteWarning", about |-> note.guid]}
       ELSE IF health /= 0
       THEN {[kind |-> "UnhealthyNoteWarning", about |-> note.guid]}
       ELSE {}

Warning(kind, about) == [kind |-> kind, about |-> about]

(* validate_decknote_fields, lines 522-537.                                *)
validate_decknote_fields(notetype, decknote) ==
    LET names == notetype.flds
        keys == decknote.keys
        both == 1..(IF Len(names) <= Len(keys) THEN Len(names) ELSE Len(keys))
    IN (IF Len(keys) /= Len(names)
        THEN {Warning("WrongFieldCountWarning", decknote.guid)} ELSE {})
       \cup (IF \E i \in both : names[i] /= keys[i]
             THEN {Warning("InconsistentFieldNamesWarning", decknote.guid)}
             ELSE {})

(* update_note, lines 478-512: tags, deck and notetype are set, and the    *)
(* fields are written when their names fit the notetype.                   *)
update_fields(st, nid, decknote) ==
    LET old == CHOOSE n \in st.notes : n.nid = nid
        moved == [old EXCEPT !.deck = decknote.deck]
        changed == IF old.model /= decknote.model
                   THEN [moved EXCEPT !.model = decknote.model, !.txt = ""]
                   ELSE moved
        warnings == validate_decknote_fields(st.models[decknote.model],
                                             decknote)
        new == [changed EXCEPT !.txt = decknote.txt]
    IN [st EXCEPT !.notes = (st.notes \ {old})
                            \cup {IF warnings /= {} THEN changed ELSE new},
                  !.warnings = @ \cup warnings]

(* update_note, lines 455-519: after a warning of the validation nothing   *)
(* more is done (502-505); otherwise the note is removed when the health   *)
(* check gives a warning (514-518).                                        *)
update_note(st, nid, decknote) ==
    LET warnings == validate_decknote_fields(st.models[decknote.model],
                                             decknote)
        up == update_fields(st, nid, decknote)
        note == CHOOSE n \in up.notes : n.nid = nid
        fwarns == check_fields_health(up.notes, nid)
    IN IF warnings /= {} THEN up
       ELSE IF fwarns /= {}
       THEN [up EXCEPT !.notes = @ \ {note},
                       !.unhealthy = @ \cup {note.guid},
                       !.warnings = @ \cup fwarns]
       ELSE up

(* add_db_note, lines 634-666: NoteImporter.addNew inserts the row with    *)
(* INSERT OR REPLACE, so a row of the same id is replaced.                 *)
add_db_note(st, decknote) ==
    [st EXCEPT !.notes = {n \in @ : n.nid /= st.new_nids}
                         \cup {[nid |-> st.new_nids, guid |-> decknote.guid,
                                txt |-> decknote.txt,
                                model |-> decknote.model,
                                deck |-> Join(DefaultDir)]},
               !.new_nids = @ + 1]

push_note(st, guids, decknote) ==
    IF st.err /= None THEN st
    ELSE IF decknote.model \notin DOMAIN st.models
    THEN [st EXCEPT !.err = "MissingNotetypeError"]
    ELSE IF decknote.guid \in DOMAIN guids
    THEN IF \E n \in st.notes : n.nid = guids[decknote.guid]
         THEN update_note(st, guids[decknote.guid], decknote)
         ELSE [st EXCEPT !.err = "NotFoundError"]
    ELSE update_note(add_db_note(st, decknote), st.new_nids, decknote)

RECURSIVE PushNotes(_, _, _)
PushNotes(st, guids, ds) ==
    IF ds = <<>> THEN st
    ELSE IF st.err = None /\ ~parses(Head(ds).note)
    THEN [st EXCEPT !.err = "UnexpectedInput"]
    ELSE PushNotes(push_note(st, guids, parse(Head(ds))), guids, Tail(ds))

IsDel(d) == d.status = DELETED
NotDel(d) == d.status /= DELETED

(* col.models.add_dict: the engine stores a notetype under its name, made  *)
(* unique if a notetype of that name exists.                               *)
RECURSIVE UniqueName(_, _)
UniqueName(models, name) ==
    IF name \notin DOMAIN models THEN name
    ELSE UniqueName(models, name \o "+")

add_dict(models, name, nt) ==
    LET new == UniqueName(models, name)
    IN [m \in DOMAIN models \cup {new} |-> IF m = new THEN nt ELSE models[m]]

(* An add_model that adds every notetype of the tree, known or not.        *)
add_model_always(st, name, nt) ==
    [st EXCEPT !.models = add_dict(@, name, nt)]

(* add_model, lines 1324-1358.                                             *)
add_model(st, name, nt) ==
    IF name \in DOMAIN st.models /\ st.models[name] = nt
    THEN st
    ELSE [st EXCEPT !.models = add_dict(@, name, nt),
                    !.warnings =
                        IF name \in DOMAIN st.models
                        THEN @ \cup {Warning("NotetypeCollisionWarning", name)}
                        ELSE @]

(* write_collection, line 1895: set(map(partial(add_model, col), ...)).    *)
RECURSIVE AddModels(_, _, _)
AddModels(st, models, names) ==
    IF names = {} THEN st
    ELSE LET name == CHOOSE m \in names : TRUE
         IN AddModels(add_model(st, name, models[name]), models,
                      names \ {name})

(* A write_collection that makes the upserts first, looking GUIDs up in    *)
(* the whole map, and removes the deleted notes after them.                *)
write_collection_upserts_first(col, deltas, models, timestamp) ==
    LET dels == SelectSeq(deltas, IsDel)
        rest == SelectSeq(deltas, NotDel)
        meta == get_note_metadata(col)
        del_guids == {parse(dels[i]).guid : i \in DOMAIN dels} \cap DOMAIN meta
        del_nids == {meta[g] : g \in del_guids}
        opened == [notes |-> col.notes, models |-> col.models,
                   new_nids |-> timestamp, err |-> None, unhealthy |-> {},
                   warnings |-> {}]
        added == AddModels(opened, models, DOMAIN models)
        pushed == PushNotes(added, meta, rest)
    IN [pushed EXCEPT !.notes = {n \in @ : n.nid \notin del_nids}]

(* write_collection, lines 1887-1926, on the copy of the collection: the   *)
(* notetypes of the tree are added, the notes of the Deleted Deltas are    *)
(* removed, and the other Deltas are pushed with a map of GUIDs that       *)
(* leaves the deleted ones out.                                            *)
write_collection_copy(col, deltas, models, timestamp) ==
    LET dels == SelectSeq(deltas, IsDel)
        rest == SelectSeq(deltas, NotDel)
        meta == get_note_metadata(col)
        del_guids == {parse(dels[i]).guid : i \in DOMAIN dels} \cap DOMAIN meta
        del_nids == {meta[g] : g \in del_guids}
        guids == [g \in DOMAIN meta \ del_guids |-> meta[g]]
        opened == [notes |-> col.notes, models |-> col.models,
                   new_nids |-> timestamp, err |-> None, unhealthy |-> {},
                   warnings |-> {}]
        added == AddModels(opened, models, DOMAIN models)
        st0 == [added EXCEPT
                   !.notes = {n \in col.notes : n.nid \notin del_nids}]
    IN PushNotes(st0, guids, rest)

(***************************************************************************)
(* State.                                                                  *)
(***************************************************************************)
VARIABLES
    platform,    \* sys.platform
    colname,     \* kirepo.col_file.name
    db,          \* the live collection file
    ledger,      \* .ki/hashes in the working tree
    backups,     \* .ki/backups/<md5>.anki2, by md5
    lca_col,     \* .ki/backups/lca.anki2
    head,        \* HEAD commit of the working branch: [id, tree, led]
    tag,         \* commit the checkpoint tag points to, or NoTag
    ncommits,    \* commits created so far
    lockHolder,  \* invocations holding the SQLite EXCLUSIVE lock
    clock,       \* time, in database timestamps
    op,          \* command of each invocation
    pc,          \* position of each invocation
    err,         \* exception an invocation died with
    result,      \* what an invocation reported
    loc,         \* local variables of each invocation
    lastOk,      \* last thing that happened to repository and collection
    budget,      \* commands and outside changes still to come
    dirty,       \* note files of the working tree that are not as at HEAD
    target,      \* the directory a clone is told to write to
    cl,          \* the clone invocation: [pc, new, err]
    wd,          \* write_decks: the cards to come and what is written
    unlocked,    \* invocations that have called unlock(con)
    active,      \* kirepo.repo.active_branch
    ki_lca,      \* commits the branch "KI-LCA" points to: one or none
    flatnotes,   \* get_guid: the field lists to come and the digest inputs
    munged       \* diff2: the diffs to come, the two roots and what is emitted

vars == <<platform, colname, db, ledger, backups, lca_col, head, tag, ncommits,
          lockHolder, clock, op, pc, err, result, loc, lastOk, budget, dirty,
          target, cl, wd, unlocked, active, ki_lca, flatnotes,
          munged>>

(* The branches of the repository.                                         *)
branches == <<active, ki_lca>>

(* What a commit by the user leaves as it is: a clone into another         *)
(* directory, the calls made, the branches and the notes being parsed.     *)
beside == <<target, cl, wd, unlocked, branches, flatnotes, munged>>

(* What push and pull leave as it is, besides the platform and the name of *)
(* the collection file.                                                    *)
aside == <<dirty, beside>>

NoTag == [id |-> -1, tree |-> <<>>, led |-> <<>>, models |-> <<>>]
NoLoc == [md5sum |-> NoHash, hashes |-> <<>>, deltas |-> <<>>, new_col |-> NoCol,
          unhealthy |-> {}, head_tree |-> <<>>, diffidx |-> <<>>,
          models |-> <<>>, warnings |-> {}]

Note1 == [nid |-> 1, guid |-> "g1", txt |-> "a", model |-> "Basic",
          deck |-> Join(DefaultDir)]
InitCols == {[notes |-> {Note1}, mod |-> 0, models |-> DbModels]}

Max(a, b) == IF a >= b THEN a ELSE b

(* A directory: whether it exists, and the names of its entries.           *)
NoTarget == [exists |-> FALSE, entries |-> {}]
EmptyDir == [exists |-> TRUE, entries |-> {}]
NoClone == [pc |-> "idle", new |-> FALSE, err |-> None]
NoFlat == [todo |-> <<>>, contents |-> <<>>]
NoDiff == [a_root |-> <<>>, b_root |-> <<>>, diffidx |-> <<>>, seen |-> <<>>,
           out |-> <<>>, err |-> None, result |-> None]
NoHead == {}
Main == "main"
NoWalk == [cards |-> {}, queue |-> <<>>, notefiles |-> <<>>, files |-> <<>>,
           links |-> <<>>]

(* clone / _clone: the repository and checkpoint a Clone leaves behind.    *)
_clone(oss, named, events) ==
    /\ platform \in oss
    /\ db \in InitCols
    /\ colname = IF named THEN Md5Name(md5(db)) ELSE PlainName
    /\ ledger = <<HashLine(md5(db), colname)>>
    /\ backups = <<>>
    /\ lca_col = db
    /\ head = [id |-> 0, tree |-> write_repository(db), led |-> ledger,
               models |-> db.models]
    /\ tag = head
    /\ ncommits = 1
    /\ lockHolder = {}
    /\ clock = 1
    /\ op = [p \in Procs |-> None]
    /\ pc = [p \in Procs |-> "idle"]
    /\ err = [p \in Procs |-> None]
    /\ result = [p \in Procs |-> None]
    /\ loc = [p \in Procs |-> NoLoc]
    /\ lastOk = "clone"
    /\ budget = events
    /\ dirty = <<>>
    /\ target = NoTarget
    /\ cl = NoClone
    /\ unlocked = {}
    /\ active = Main
    /\ ki_lca = NoHead

(* No cards are being written, no notes parsed and no diffs read.          *)
NoWork == wd = NoWalk /\ flatnotes = NoFlat /\ munged = NoDiff

Init == _clone({"posix"}, FALSE, MaxEvents) /\ NoWork
InitConcurrent ==
    _clone({"posix", "win32"}, FALSE, MaxConcurrentEvents) /\ NoWork
InitBackupName == _clone({"posix"}, TRUE, MaxEvents) /\ NoWork

Resting == {"idle", "done", "failed"}
Idle == cl.pc \in Resting /\ \A p \in Procs : pc[p] \in Resting

(* The process of an invocation ends: its connection is closed with it.    *)
Released(p) == lockHolder \ {p}

Fail(p, e) ==
    /\ pc' = [pc EXCEPT ![p] = "failed"]
    /\ err' = [err EXCEPT ![p] = e]
    /\ lockHolder' = Released(p)
    /\ lastOk' = None

(***************************************************************************)
(* lock / unlock.                                                          *)
(***************************************************************************)
Start(p, o) ==
    /\ pc[p] \in Resting
    /\ \A q \in Procs : q < p => pc[q] \notin Resting
    /\ budget > 0
    /\ op' = [op EXCEPT ![p] = o]
    /\ pc' = [pc EXCEPT ![p] = "lock"]
    /\ err' = [err EXCEPT ![p] = None]
    /\ result' = [result EXCEPT ![p] = None]
    /\ loc' = [loc EXCEPT ![p] = NoLoc]
    /\ budget' = budget - 1
    /\ unlocked' = unlocked \ {p}
    /\ UNCHANGED <<munged, flatnotes, dirty, target, cl, wd, branches,
                   platform, colname, db, ledger, backups, lca_col, head, tag,
                   ncommits, lockHolder, clock, lastOk>>

(* BEGIN EXCLUSIVE succeeds; on win32 the connection is committed and      *)
(* closed before lock() returns.                                           *)
Acquired(p) ==
    /\ lockHolder = {}
    /\ lockHolder' = IF platform = "win32" THEN {} ELSE {p}
    /\ pc' = [pc EXCEPT ![p] = "check"]

lock(p) ==
    /\ pc[p] = "lock"
    /\ Acquired(p)
    /\ UNCHANGED <<aside, platform, colname, db, ledger, backups, lca_col,
                   head, tag, ncommits, clock, op, err, result, loc, lastOk,
                   budget>>

(* BEGIN EXCLUSIVE finds the lock held: the busy handler starts to wait.   *)
lock_busy(p) ==
    /\ pc[p] = "lock"
    /\ lockHolder /= {}
    /\ pc' = [pc EXCEPT ![p] = "busy"]
    /\ UNCHANGED <<aside, platform, colname, db, ledger, backups, lca_col,
                   head, tag, ncommits, lockHolder, clock, op, err, result,
                   loc, lastOk, budget>>

(* sqlite3.connect(timeout=0.1): the busy handler retries for 0.1 s.       *)
lock_retry(p) ==
    /\ pc[p] = "busy"
    /\ Acquired(p)
    /\ UNCHANGED <<aside, platform, colname, db, ledger, backups, lca_col,
                   head, tag, ncommits, clock, op, err, result, loc, lastOk,
                   budget>>

(* lock without its except clause: the engine's error is not wrapped.      *)
lock_timeout_unwrapped(p) ==
    /\ pc[p] = "busy"
    /\ lockHolder /= {}
    /\ pc' = [pc EXCEPT ![p] = "failed"]
    /\ err' = [err EXCEPT ![p] = "DatabaseError"]
    /\ UNCHANGED <<aside, platform, colname, db, ledger, backups, lca_col,
                   head, tag, ncommits, lockHolder, clock, op, result, loc,
                   lastOk, budget>>

(* The busy timeout expires with the lock still held: SQLiteLockError.     *)
lock_timeout(p) ==
    /\ pc[p] = "busy"
    /\ lockHolder /= {}
    /\ pc' = [pc EXCEPT ![p] = "failed"]
    /\ err' = [err EXCEPT ![p] = "SQLiteLockError"]
    /\ UNCHANGED <<aside, platform, colname, db, ledger, backups, lca_col,
                   head, tag, ncommits, lockHolder, clock, op, result, loc,
                   lastOk, budget>>

(* unlock, lines 215-221.                                                  *)
unlock(p) == IF platform = "win32" THEN lockHolder ELSE Released(p)

(* F.md5 opens, reads and closes the collection file in the process whose  *)
(* connection holds the lock.  Where the database engine locks with POSIX  *)
(* advisory locks, closing any descriptor of a file cancels every lock the *)
(* process holds on it; with another locking style the lock stays.  Both   *)
(* outcomes are kept.                                                      *)
AfterRead(p) == {lockHolder, Released(p)}

(***************************************************************************)
(* push.                                                                   *)
(***************************************************************************)
Done(p, r) ==
    /\ pc' = [pc EXCEPT ![p] = "done"]
    /\ result' = [result EXCEPT ![p] = r]

(* A staleness check that accepts a hash found in any line of the ledger.  *)
push_check_any_line(p) ==
    /\ pc[p] = "check" /\ op[p] = "push"
    /\ loc' = [loc EXCEPT ![p].md5sum = md5(db), ![p].hashes = ledger]
    /\ IF \A i \in 1..Len(ledger) : ~LineContains(ledger[i], md5(db))
       THEN /\ Fail(p, "UpdatesRejectedError")
            /\ UNCHANGED result
       ELSE /\ pc' = [pc EXCEPT ![p] = "diff"]
            /\ lockHolder' \in AfterRead(p)
            /\ UNCHANGED <<err, result, lastOk>>
    /\ UNCHANGED <<aside, platform, colname, db, ledger, backups, lca_col,
                   head, tag, ncommits, clock, op, budget>>

(* push, lines 1842-1846: the staleness check.                             *)
push_check(p) ==
    /\ pc[p] = "check" /\ op[p] = "push"
    /\ loc' = [loc EXCEPT ![p].md5sum = md5(db), ![p].hashes = ledger]
    /\ IF ~LineContains(Last(ledger), md5(db))
       THEN /\ Fail(p, "UpdatesRejectedError")
            /\ UNCHANGED result
       ELSE /\ pc' = [pc EXCEPT ![p] = "diff"]
            /\ lockHolder' \in AfterRead(p)
            /\ UNCHANGED <<err, result, lastOk>>
    /\ UNCHANGED <<aside, platform, colname, db, ledger, backups, lca_col,
                   head, tag, ncommits, clock, op, budget>>

(* cp_repo: the whole directory of the repository is copied, files that   *)
(* were never added included, and the copy is reset hard to the revision:  *)
(* every file of the revision is as committed, and a file the revision     *)
(* does not hold stays as the working tree has it.                         *)
cp_repo(tree, worktree) ==
    [q \in DOMAIN tree \cup DOMAIN worktree |->
        IF q \in DOMAIN tree THEN tree[q] ELSE worktree[q]]

(* gitcopy: the files of the clone of the collection give way to the       *)
(* contents of the directory root.                                         *)
gitcopy(repo, root) == root

(* push, lines 1848-1873: clone the collection, replace its files by those *)
(* of the copy of the repository at HEAD, commit all, diff the two commits.*)
push_diff(p) ==
    /\ pc[p] = "diff" /\ op[p] = "push"
    /\ LET remote == write_repository(db)
           local == gitcopy(remote, cp_repo(head.tree, dirty))
       IN \E r \in RenamePairings(remote, local) :
         LET deltas == diff2(remote, local, r)
         IN IF mungediff_raises(remote, local, r)
            THEN /\ Fail(p, "UnexpectedInput")
                 /\ UNCHANGED <<result, loc>>
            ELSE IF deltas = <<>>
            THEN /\ Done(p, "UP_TO_DATE")
                 /\ lockHolder' = Released(p)
                 /\ loc' = [loc EXCEPT ![p] = NoLoc]
                 /\ UNCHANGED <<err, lastOk>>
            ELSE /\ pc' = [pc EXCEPT ![p] = "write"]
                 /\ loc' = [loc EXCEPT ![p].deltas = deltas,
                                       ![p].head_tree = local,
                                       ![p].diffidx = r,
                                       ![p].models = head.models]
                 /\ UNCHANGED <<result, lockHolder, err, lastOk>>
    /\ UNCHANGED <<aside, platform, colname, db, ledger, backups, lca_col,
                   head, tag, ncommits, clock, op, budget>>

(* write_collection opening kirepo.col_file itself, not a copy of it.      *)
push_write_in_place(p) ==
    /\ pc[p] = "write" /\ op[p] = "push"
    /\ LET st == write_collection_copy(db, loc[p].deltas, loc[p].models,
                                       clock + 1)
           now == Max(clock + 1, st.new_nids - 1)
       IN /\ clock' = now
          /\ db' = [notes |-> st.notes, mod |-> now, models |-> st.models]
          /\ loc' = [loc EXCEPT ![p].new_col = db',
                                ![p].unhealthy = st.unhealthy,
                                ![p].warnings = st.warnings]
          /\ IF st.err /= None
             THEN Fail(p, st.err)
             ELSE /\ pc' = [pc EXCEPT ![p] = "backup"]
                  /\ UNCHANGED <<err, lockHolder, lastOk>>
    /\ UNCHANGED <<aside, platform, colname, ledger, backups, lca_col, head,
                   tag, ncommits, op, result, budget>>

(* write_collection, lines 1887-1926: every change is made to a copy of    *)
(* the collection in a temporary directory.                                *)
push_write(p) ==
    /\ pc[p] = "write" /\ op[p] = "push"
    /\ LET st == write_collection_copy(db, loc[p].deltas, loc[p].models,
                                       clock + 1)
           now == Max(clock + 1, st.new_nids - 1)
       IN /\ clock' = now
          /\ loc' = [loc EXCEPT ![p].new_col = [notes |-> st.notes, mod |-> now,
                                                models |-> st.models],
                                ![p].unhealthy = st.unhealthy,
                                ![p].warnings = st.warnings]
          /\ IF st.err /= None
             THEN Fail(p, st.err)
             ELSE /\ pc' = [pc EXCEPT ![p] = "backup"]
                  /\ UNCHANGED <<err, lockHolder, lastOk>>
    /\ UNCHANGED <<aside, platform, colname, db, ledger, backups, lca_col,
                   head, tag, ncommits, op, result, budget>>

(* backup, lines 600-616.                                                  *)
backup(bs, col) ==
    IF md5(col) \in DOMAIN bs THEN bs
    ELSE [h \in DOMAIN bs \cup {md5(col)} |-> IF h = md5(col) THEN col ELSE bs[h]]

backup_returncode(bs, col) == IF md5(col) \in DOMAIN bs THEN 1 ELSE 0

(* A backup that writes its file whether or not one of that name exists,   *)
(* with what the push is about to put in the place of the collection.      *)
push_backup_of_copy(p) ==
    /\ pc[p] = "backup" /\ op[p] = "push"
    /\ backups' = [h \in DOMAIN backups \cup {md5(db)} |->
                      IF h = md5(db) THEN loc[p].new_col ELSE backups[h]]
    /\ pc' = [pc EXCEPT ![p] = "replace"]
    /\ UNCHANGED <<aside, platform, colname, db, ledger, lca_col, head, tag,
                   ncommits, lockHolder, clock, op, err, result, loc, lastOk,
                   budget>>

push_backup(p) ==
    /\ pc[p] = "backup" /\ op[p] = "push"
    /\ backups' = backup(backups, db)
    /\ pc' = [pc EXCEPT ![p] = "replace"]
    /\ UNCHANGED <<aside, platform, colname, db, ledger, lca_col, head, tag,
                   ncommits, lockHolder, clock, op, err, result, loc, lastOk,
                   budget>>

(* write_collection, lines 1930-1947: the live file is overwritten with    *)
(* the copy; media files are then added to the live collection.            *)
push_replace(p) ==
    /\ pc[p] = "replace" /\ op[p] = "push"
    /\ db' = loc[p].new_col
    /\ pc' = [pc EXCEPT ![p] = "append"]
    /\ UNCHANGED <<aside, platform, colname, ledger, backups, lca_col, head,
                   tag, ncommits, lockHolder, clock, op, err, result, loc,
                   lastOk, budget>>

(* append_md5sum, lines 619-624.                                           *)
append_md5sum(led, name, h) == Append(led, HashLine(h, name))

(* The append of write_collection with the hash taken at the staleness     *)
(* check in the place of the hash of the file as it is after the copy.     *)
(* A write_collection without overwrite_lca_col_file (line 1953).          *)
push_append_keep_lca(p) ==
    /\ pc[p] = "append" /\ op[p] = "push"
    /\ ledger' = append_md5sum(ledger, colname, md5(db))
    /\ pc' = [pc EXCEPT ![p] = "tag"]
    /\ UNCHANGED <<aside, platform, colname, db, backups, head, tag, ncommits,
                   lockHolder, clock, op, err, result, loc, lastOk,
                   budget, lca_col>>

push_append_stale(p) ==
    /\ pc[p] = "append" /\ op[p] = "push"
    /\ ledger' = append_md5sum(ledger, colname, loc[p].md5sum)
    /\ lca_col' = db
    /\ pc' = [pc EXCEPT ![p] = "tag"]
    /\ UNCHANGED <<aside, platform, colname, db, backups, head, tag, ncommits,
                   lockHolder, clock, op, err, result, loc, lastOk,
                   budget>>

(* write_collection, lines 1949-1953.                                      *)
push_append(p) ==
    /\ pc[p] = "append" /\ op[p] = "push"
    /\ ledger' = append_md5sum(ledger, colname, md5(db))
    /\ lca_col' = db
    /\ pc' = [pc EXCEPT ![p] = "tag"]
    /\ UNCHANGED <<aside, platform, colname, db, backups, head, tag, ncommits,
                   lockHolder, clock, op, err, result, loc, lastOk,
                   budget>>

(* A write_collection that moves the tag in place: create_tag with force,  *)
(* and no delete_tag before it.                                            *)
push_tag_in_place(p) ==
    /\ pc[p] = "tag" /\ op[p] = "push"
    /\ tag' = head
    /\ lockHolder' = unlock(p)
    /\ unlocked' = unlocked \cup {p}
    /\ Done(p, "NONTRIVIAL")
    /\ loc' = [loc EXCEPT ![p] = NoLoc]
    /\ lastOk' = "push"
    /\ UNCHANGED <<munged, flatnotes, dirty, target, cl, wd, branches,
                   platform, colname, db, ledger, backups, lca_col, head,
                   ncommits, clock, op, budget, err>>

(* write_collection, lines 1955-1959: delete_tag raises when the tag does  *)
(* not exist.                                                              *)
push_tag(p) ==
    /\ pc[p] = "tag" /\ op[p] = "push"
    /\ IF tag = NoTag
       THEN /\ Fail(p, "GitCommandError")
            /\ UNCHANGED <<tag, result, loc, unlocked>>
       ELSE /\ tag' = head
            /\ lockHolder' = unlock(p)
            /\ unlocked' = unlocked \cup {p}
            /\ Done(p, "NONTRIVIAL")
            /\ loc' = [loc EXCEPT ![p] = NoLoc]
            /\ lastOk' = "push"
            /\ UNCHANGED err
    /\ UNCHANGED <<munged, flatnotes, dirty, target, cl, wd, branches,
                   platform, colname, db, ledger, backups, lca_col, head,
                   ncommits, clock, op, budget>>

(***************************************************************************)
(* pull.                                                                   *)
(***************************************************************************)
(* pull without its early return.                                          *)
pull_unchecked(p) ==
    /\ pc[p] = "check" /\ op[p] = "pull"
    /\ pc' = [pc EXCEPT ![p] = "_pull"]
    /\ loc' = [loc EXCEPT ![p].md5sum = md5(db), ![p].hashes = ledger]
    /\ lockHolder' \in AfterRead(p)
    /\ UNCHANGED <<aside, platform, colname, db, ledger, backups, lca_col,
                   head, tag, ncommits, clock, op, err, result, lastOk,
                   budget>>

(* pull, lines 1728-1737.                                                  *)
pull_check(p) ==
    /\ pc[p] = "check" /\ op[p] = "pull"
    /\ IF LineContains(Last(ledger), md5(db))
       THEN /\ Done(p, "UP_TO_DATE")
            /\ lockHolder' = Released(p)
            /\ UNCHANGED loc
       ELSE /\ pc' = [pc EXCEPT ![p] = "_pull"]
            /\ loc' = [loc EXCEPT ![p].md5sum = md5(db), ![p].hashes = ledger]
            /\ lockHolder' \in AfterRead(p)
            /\ UNCHANGED result
    /\ UNCHANGED <<aside, platform, colname, db, ledger, backups, lca_col,
                   head, tag, ncommits, clock, op, err, lastOk, budget>>

(* sqldiff / apply_diff / apply_statement, lines 1543-1577: the tree the   *)
(* change list turns the checkpoint tree into.                             *)
apply_diff(tree, lca, col) == tree

(* git merge of the file .ki/hashes: base, ours, theirs.                   *)
MergeLedger(base, ours, theirs) == IF theirs = base THEN ours ELSE theirs

(* git's three-way merge of two trees over their common ancestor, as run   *)
(* by line 1790: a path is the same in two trees when both lack it or both *)
(* hold the same content; it conflicts when both sides changed it and      *)
(* disagree.                                                               *)
SamePath(x, y, q) ==
    /\ (q \in DOMAIN x) = (q \in DOMAIN y)
    /\ q \in DOMAIN x => x[q] = y[q]

MergeConflicts(base, ours, theirs) ==
    {q \in DOMAIN base \cup DOMAIN ours \cup DOMAIN theirs :
        /\ ~SamePath(base, ours, q)
        /\ ~SamePath(base, theirs, q)
        /\ ~SamePath(ours, theirs, q)}

MergeTree(base, ours, theirs) ==
    LET side(q) == IF SamePath(base, theirs, q) THEN ours ELSE theirs
    IN [q \in {r \in DOMAIN ours \cup DOMAIN theirs : r \in DOMAIN side(r)}
           |-> side(q)[q]]

(* F.commitall, functional.py lines 488-491: git add --all and a commit;   *)
(* the tree committed is the checked-out one with every file of the        *)
(* working tree that is not as in it.                                      *)
commitall(tree, worktree) ==
    [q \in DOMAIN tree \cup DOMAIN worktree |->
        IF q \in DOMAIN worktree THEN worktree[q] ELSE tree[q]]

(* lca.checkout(), line 1781: git refuses to leave a commit for another    *)
(* when a file that differs between the two is changed or untracked in the *)
(* working tree.                                                           *)
Overwritten(from, to, worktree) ==
    {q \in DOMAIN worktree : ~SamePath(from, to, q)}

(* _pull, lines 1780-1788: the commit made on the branch created at the    *)
(* checkpoint tag.                                                         *)
lca_commit ==
    [id |-> ncommits,
     tree |-> commitall(apply_diff(tag.tree, lca_col, db), dirty),
     led |-> IF ledger = head.led THEN tag.led ELSE ledger,
     models |-> tag.models]

(* An earlier design of the pull: the database is cloned into a history    *)
(* of its own, which shares no commit with the working branch.             *)
unrelated_commit ==
    [id |-> ncommits, tree |-> write_repository(db), led |-> ledger,
     models |-> db.models]

(* Repo.create_head(path, commit) without force, as called at line 1780:   *)
(* a branch of that name pointing to another commit is an error, one       *)
(* pointing to the same commit is set again.                               *)
create_head(ref, commit) == ref \subseteq {commit}

(* _pull, lines 1777-1796: branch at the tag, commit everything there,     *)
(* merge into the working branch, check .ki/hashes out of the old HEAD.    *)
pull_merge_from(p, base, lca) ==
    /\ pc[p] = "_pull" /\ op[p] = "pull"
    /\ loc' = [loc EXCEPT ![p].md5sum = md5(db)]
    /\ IF tag = NoTag
       THEN /\ Fail(p, "ValueError")
            /\ UNCHANGED <<head, ncommits, ledger, branches, dirty>>
       ELSE IF ~create_head(ki_lca, tag.id)
       THEN /\ Fail(p, "OSError")
            /\ UNCHANGED <<head, ncommits, ledger, branches, dirty>>
       ELSE IF \/ ledger /= head.led /\ tag.led /= head.led
               \/ Overwritten(head.tree, tag.tree, dirty) /= {}
       THEN /\ Fail(p, "GitCommandError")
            /\ ki_lca' = {tag.id}
            /\ UNCHANGED <<head, ncommits, ledger, active, dirty>>
       ELSE IF MergeConflicts(base, head.tree, lca.tree) /= {}
       THEN /\ Fail(p, "GitCommandError")
            /\ ki_lca' = {lca.id}
            /\ active' = Main
            /\ dirty' = <<>>
            /\ ncommits' = ncommits + 1
            /\ UNCHANGED <<head, ledger>>
       ELSE /\ IF head.id = tag.id
               THEN /\ head' = lca
                    /\ ncommits' = ncommits + 1
               ELSE /\ head' = [id |-> ncommits + 1,
                                tree |-> MergeTree(base, head.tree, lca.tree),
                                led |-> MergeLedger(tag.led, head.led, lca.led),
                                models |-> MergeLedger(tag.models, head.models,
                                                       lca.models)]
                    /\ ncommits' = ncommits + 2
            /\ ledger' = head.led
            /\ active' = Main
            /\ ki_lca' = NoHead
            /\ dirty' = <<>>
            /\ pc' = [pc EXCEPT ![p] = "append"]
            /\ UNCHANGED <<err, lockHolder, lastOk>>
    /\ UNCHANGED <<munged, flatnotes, target, cl, wd, unlocked, platform,
                   colname, db, backups, lca_col, tag, clock, op, result,
                   budget>>

pull_merge_unrelated(p) == pull_merge_from(p, <<>>, unrelated_commit)

pull_merge(p) == pull_merge_from(p, tag.tree, lca_commit)

(* _pull, line 1800.                                                       *)
pull_append(p) ==
    /\ pc[p] = "append" /\ op[p] = "pull"
    /\ ledger' = append_md5sum(ledger, colname, loc[p].md5sum)
    /\ pc' = [pc EXCEPT ![p] = "verify"]
    /\ UNCHANGED <<aside, platform, colname, db, backups, lca_col, head, tag,
                   ncommits, lockHolder, clock, op, err, result, loc, lastOk,
                   budget>>

(* _pull, lines 1801-1805, and pull, line 1738.                            *)
pull_commit(p) ==
    /\ pc[p] = "verify" /\ op[p] = "pull"
    /\ IF md5(db) /= loc[p].md5sum
       THEN /\ Fail(p, "CollectionChecksumError")
            /\ UNCHANGED <<head, ncommits, result, loc, unlocked>>
       ELSE /\ head' = [head EXCEPT !.id = ncommits, !.led = ledger]
            /\ ncommits' = ncommits + 1
            /\ lockHolder' = unlock(p)
            /\ unlocked' = unlocked \cup {p}
            /\ Done(p, "PULLED")
            /\ loc' = [loc EXCEPT ![p] = NoLoc]
            /\ lastOk' = "pull"
            /\ UNCHANGED err
    /\ UNCHANGED <<munged, flatnotes, dirty, target, cl, wd, branches,
                   platform, colname, db, ledger, backups, lca_col, tag,
                   clock, op, budget>>

(***************************************************************************)
(* The user and the database's other client (the Anki application).        *)
(***************************************************************************)
Restrict(f, S) == [x \in S |-> f[x]]

TreeEdits(tree) ==
    {Restrict(tree, DOMAIN tree \ {q}) : q \in DOMAIN tree}
    \cup {[q \in DOMAIN tree \cup {x} |-> IF q = x THEN c ELSE tree[q]] :
            x \in UserPaths, c \in FileContents}

(* The working tree: the files of HEAD with the uncommitted ones in the    *)
(* place of theirs.                                                        *)
WorkTree ==
    [q \in DOMAIN head.tree \cup DOMAIN dirty |->
        IF q \in DOMAIN dirty THEN dirty[q] ELSE head.tree[q]]

(* The user edits note files and commits everything (git add --all).       *)
UserCommit ==
    /\ Idle
    /\ budget > 0
    /\ \E t \in (TreeEdits(WorkTree) \cup {WorkTree}) \ {head.tree} :
         head' = [head EXCEPT !.id = ncommits, !.tree = t, !.led = ledger]
    /\ dirty' = <<>>
    /\ ncommits' = ncommits + 1
    /\ budget' = budget - 1
    /\ lastOk' = None
    /\ UNCHANGED <<beside, platform, colname, db, ledger, backups, lca_col,
                   tag, lockHolder, clock, op, pc, err, result, loc>>

(* The user writes a note file, one that HEAD holds or a new one, and does *)
(* not add or commit it.                                                   *)
UserEdit ==
    /\ Idle
    /\ budget > 0
    /\ \E x \in UserPaths \cup DOMAIN head.tree, c \in FileContents :
         /\ x \in DOMAIN head.tree => c /= head.tree[x]
         /\ dirty' = [q \in DOMAIN dirty \cup {x} |->
                         IF q = x THEN c ELSE dirty[q]]
    /\ budget' = budget - 1
    /\ UNCHANGED <<beside, platform, colname, db, ledger, backups, lca_col,
                   head, tag, ncommits, lockHolder, clock, op, pc, err,
                   result, loc, lastOk>>

(***************************************************************************)
(* Clone into a directory.                                                 *)
(***************************************************************************)
(* get_target, lines 1283-1294: a path that does not exist is made a       *)
(* directory, an empty directory is taken as it is, anything else raises.  *)
get_target(t) ==
    IF ~t.exists
    THEN [dir |-> EmptyDir, new |-> TRUE, err |-> None]
    ELSE IF t.entries = {}
    THEN [dir |-> t, new |-> FALSE, err |-> None]
    ELSE [dir |-> t, new |-> TRUE, err |-> "TargetExistsError"]

(* A cleanup that removes the directory whether the clone made it or not.  *)
cleanup_rmtree(targetdir, new, denied) ==
    IF denied THEN targetdir ELSE NoTarget

(* cleanup, lines 1610-1622: a directory the clone made is removed, one    *)
(* that was there loses its entries; a PermissionError is swallowed and    *)
(* leaves what is there.                                                   *)
cleanup(targetdir, new, denied) ==
    IF denied THEN targetdir
    ELSE IF new THEN NoTarget
    ELSE [targetdir EXCEPT !.entries = {}]

(* A removal is refused only where a file held open cannot be removed.     *)
Denials == IF platform = "win32" THEN BOOLEAN ELSE {FALSE}

(* A close that saves whatever it is told.                                 *)
close_saving(col, save, now) == [col EXCEPT !.mod = now]

(* Collection.close: with save the collection is written, and its          *)
(* modification time with it.                                              *)
close(col, save, now) == IF save THEN [col EXCEPT !.mod = now] ELSE col

(* The directories of the decks, at the top of the tree.                   *)
DeckDirs(tree) == {q[1][1] : q \in DOMAIN tree}

(* clone, line 1607: the command is given a collection file that exists.  *)
clone ==
    /\ Idle
    /\ budget > 0
    /\ cl' = [NoClone EXCEPT !.pc = "target"]
    /\ budget' = budget - 1
    /\ UNCHANGED <<unlocked, branches, flatnotes, munged,
                   wd, target, dirty, platform, colname, db, ledger, backups,
                   lca_col, head, tag, ncommits, lockHolder, clock, op, pc,
                   err, result, loc, lastOk>>

(* clone, line 1625: the target is chosen, outside the try.                *)
clone_get_target ==
    /\ cl.pc = "target"
    /\ LET got == get_target(target)
       IN /\ target' = got.dir
          /\ cl' = [pc |-> IF got.err = None THEN "init" ELSE "failed",
                    new |-> got.new, err |-> got.err]
    /\ UNCHANGED <<unlocked, branches, flatnotes, munged,
                   wd, dirty, platform, colname, db, ledger, backups, lca_col,
                   head, tag, ncommits, lockHolder, clock, op, pc, err,
                   result, loc, lastOk, budget>>

(* _clone, lines 1670-1675: the empty repository, the hash of the          *)
(* collection, .gitignore and the directory of the backups.                *)
clone_init ==
    /\ cl.pc = "init"
    /\ target' = [target EXCEPT
                     !.entries = @ \cup {".ki", "_media", ".gitignore"}]
    /\ cl' = [cl EXCEPT !.pc = "write"]
    /\ UNCHANGED <<unlocked, branches, flatnotes, munged,
                   wd, dirty, platform, colname, db, ledger, backups, lca_col,
                   head, tag, ncommits, lockHolder, clock, op, pc, err,
                   result, loc, lastOk, budget>>

(* write_repository, lines 906-943, inside the try of clone: the           *)
(* collection is opened, tidy is run (it raises when the executable is     *)
(* not there), the decks are written, and the collection is closed         *)
(* without saving.  An exception goes through cleanup.                     *)
clone_write ==
    /\ cl.pc = "write"
    /\ \E tidy \in BOOLEAN, denied \in Denials :
         IF tidy
         THEN /\ target' = [target EXCEPT
                   !.entries = @ \cup DeckDirs(write_repository(db))
                                 \cup {"models.json"}]
              /\ db' = close(db, FALSE, clock + 1)
              /\ cl' = [cl EXCEPT !.pc = "commit"]
         ELSE /\ target' = cleanup(target, cl.new, denied)
              /\ db' = db
              /\ cl' = [cl EXCEPT !.pc = "failed",
                                  !.err = "MissingTidyExecutableError"]
    /\ UNCHANGED <<unlocked, branches, flatnotes, munged,
                   wd, dirty, platform, colname, ledger, backups, lca_col,
                   head, tag, ncommits, lockHolder, clock, op, pc, err,
                   result, loc, lastOk, budget>>

(* _clone, lines 1681-1715, and clone, lines 1628-1631: the repository is  *)
(* initialised and committed, the ledger and the ancestor are written,     *)
(* and the tag is set.                                                     *)
clone_commit ==
    /\ cl.pc = "commit"
    /\ target' = [target EXCEPT !.entries = @ \cup {".git"}]
    /\ cl' = [cl EXCEPT !.pc = "done"]
    /\ UNCHANGED <<unlocked, branches, flatnotes, munged,
                   wd, dirty, platform, colname, db, ledger, backups, lca_col,
                   head, tag, ncommits, lockHolder, clock, op, pc, err,
                   result, loc, lastOk, budget>>

(* The user makes the directory, puts a file into it, or removes it,       *)
(* while no command runs.                                                  *)
Populated == [exists |-> TRUE, entries |-> {"hi"}]

UserTarget ==
    /\ Idle
    /\ budget > 0
    /\ target' \in {NoTarget, EmptyDir, Populated} \ {target}
    /\ budget' = budget - 1
    /\ UNCHANGED <<unlocked, branches, flatnotes, munged,
                   wd, cl, dirty, platform, colname, db, ledger, backups, lca_col,
                   head, tag, ncommits, lockHolder, clock, op, pc, err,
                   result, loc, lastOk>>

(* The user moves a note file into another directory (git mv), with or     *)
(* without a change to its guid line, and commits.                         *)
UserMove ==
    /\ Idle
    /\ budget > 0
    /\ \E q \in DOMAIN head.tree, i \in DOMAIN Dirs, g \in GUIDs :
         LET x == <<Dirs[i], q[2], q[3]>>
             c == [head.tree[q] EXCEPT !.guid = g]
         IN /\ x \notin DOMAIN head.tree
            /\ head' = [id |-> ncommits,
                        tree |-> [y \in (DOMAIN head.tree \ {q}) \cup {x} |->
                                    IF y = x THEN c ELSE head.tree[y]],
                        led |-> ledger, models |-> head.models]
    /\ ncommits' = ncommits + 1
    /\ budget' = budget - 1
    /\ lastOk' = None
    /\ UNCHANGED <<aside, platform, colname, db, ledger, backups, lca_col,
                   tag, lockHolder, clock, op, pc, err, result, loc>>

(* The user adds or rewrites a note file whose guid line is blank, and     *)
(* commits.                                                                *)
UserCommitBlankGuid ==
    /\ Idle
    /\ budget > 0
    /\ \E x \in UserPaths, t \in Txts :
         /\ IF x \in DOMAIN head.tree THEN head.tree[x].guid /= "" ELSE TRUE
         /\ head' = [id |-> ncommits,
                     tree |-> [q \in DOMAIN head.tree \cup {x} |->
                                 IF q = x
                                 THEN [guid |-> "", txt |-> t, model |-> "Basic",
                                       keys |-> BasicFlds]
                                 ELSE head.tree[q]],
                     led |-> ledger, models |-> head.models]
    /\ ncommits' = ncommits + 1
    /\ budget' = budget - 1
    /\ lastOk' = None
    /\ UNCHANGED <<aside, platform, colname, db, ledger, backups, lca_col,
                   tag, lockHolder, clock, op, pc, err, result, loc>>

(* The user adds or rewrites a note file so that it keeps its first lines, *)
(* guid line included, but is no note the grammar accepts, and commits.    *)
UserCommitMalformed ==
    /\ Idle
    /\ budget > 0
    /\ \E x \in UserPaths, g \in GUIDs :
         LET c == [guid |-> g, txt |-> Unparsable, model |-> "Basic",
                   keys |-> BasicFlds]
         IN /\ x \in DOMAIN head.tree => head.tree[x] /= c
            /\ head' = [id |-> ncommits,
                        tree |-> [q \in DOMAIN head.tree \cup {x} |->
                                    IF q = x THEN c ELSE head.tree[q]],
                        led |-> ledger, models |-> head.models]
    /\ ncommits' = ncommits + 1
    /\ budget' = budget - 1
    /\ lastOk' = None
    /\ UNCHANGED <<aside, platform, colname, db, ledger, backups, lca_col,
                   tag, lockHolder, clock, op, pc, err, result, loc>>

(* The field names a user may give the sections of a note file: those of   *)
(* the notetype, one name short, and one name misspelt.                    *)
KeyLists == {BasicFlds, <<"Front">>, <<"Front", "Backk">>}

(* The user rewrites the notetype line or the field names of a note file,  *)
(* with or without a change to the text of its first field, and commits.   *)
UserCommitFieldNames ==
    /\ Idle
    /\ budget > 0
    /\ \E x \in DOMAIN head.tree, m \in DOMAIN head.models, k \in KeyLists,
          t \in Txts :
         LET c == [head.tree[x] EXCEPT !.model = m, !.keys = k, !.txt = t]
         IN /\ c.model /= head.tree[x].model \/ c.keys /= head.tree[x].keys
            /\ head' = [head EXCEPT !.id = ncommits, !.led = ledger,
                                    !.tree = [head.tree EXCEPT ![x] = c]]
    /\ ncommits' = ncommits + 1
    /\ budget' = budget - 1
    /\ lastOk' = None
    /\ UNCHANGED <<aside, platform, colname, db, ledger, backups, lca_col,
                   tag, lockHolder, clock, op, pc, err, result, loc>>

(* A notetype the collection does not have, with the first field of Basic. *)
OtherType == [flds |-> <<"Front">>, rev |-> 0]

(* The user edits models.json: a notetype is added, or the content of a    *)
(* notetype is changed under its name; and commits.                        *)
ModelEdits(models) ==
    {[m \in DOMAIN models \cup {"Other"} |->
         IF m = "Other" THEN OtherType ELSE models[m]] :
       x \in {"Other"} \ DOMAIN models}
    \cup {[models EXCEPT ![m].rev = 1] :
            m \in {n \in DOMAIN models : models[n].rev = 0}}

UserCommitModels ==
    /\ Idle
    /\ budget > 0
    /\ \E ms \in ModelEdits(head.models) :
         head' = [head EXCEPT !.id = ncommits, !.led = ledger, !.models = ms]
    /\ ncommits' = ncommits + 1
    /\ budget' = budget - 1
    /\ lastOk' = None
    /\ UNCHANGED <<aside, platform, colname, db, ledger, backups, lca_col,
                   tag, lockHolder, clock, op, pc, err, result, loc>>

(* The application saves a change to the content of a notetype.            *)
AnkiEditModel ==
    /\ lockHolder = {}
    /\ Idle
    /\ budget > 0
    /\ \E ms \in ModelEdits(db.models) :
         /\ DOMAIN ms = DOMAIN db.models
         /\ db' = [db EXCEPT !.models = ms, !.mod = clock + 1]
    /\ clock' = clock + 1
    /\ budget' = budget - 1
    /\ lastOk' = None
    /\ UNCHANGED <<aside, platform, colname, ledger, backups, lca_col, head,
                   tag, ncommits, lockHolder, op, pc, err, result, loc>>

(* git tag -d last-successful-ki-push.                                     *)
UserDeleteTag ==
    /\ Idle
    /\ budget > 0
    /\ budget' = budget - 1
    /\ tag /= NoTag
    /\ tag' = NoTag
    /\ lastOk' = None
    /\ UNCHANGED <<aside, platform, colname, db, ledger, backups, lca_col,
                   head, ncommits, lockHolder, clock, op, pc, err, result,
                   loc>>

(* git reset --hard / git checkout -- .ki/hashes.                          *)
UserDiscardLedger ==
    /\ Idle
    /\ budget > 0
    /\ budget' = budget - 1
    /\ ledger /= head.led
    /\ ledger' = head.led
    /\ lastOk' = None
    /\ UNCHANGED <<aside, platform, colname, db, backups, lca_col, head, tag,
                   ncommits, lockHolder, clock, op, pc, err, result, loc>>

ColEdits(col, t) ==
    {(col.notes \ {n}) : n \in col.notes}
    \cup {(col.notes \ {n}) \cup {[n EXCEPT !.txt = IF n.txt = "a" THEN "b" ELSE "a"]} :
            n \in col.notes}
    \cup {col.notes \cup {[nid |-> t, guid |-> g, txt |-> x, model |-> "Basic",
                           deck |-> Join(DefaultDir)]} :
            g \in GUIDs \ {n.guid : n \in col.notes}, x \in Txts}

(* The application saves a change to the collection; it takes the lock.    *)
AnkiEdit ==
    /\ lockHolder = {}
    /\ budget > 0
    /\ \E ns \in ColEdits(db, clock + 1) :
         db' = [db EXCEPT !.notes = ns, !.mod = clock + 1]
    /\ clock' = clock + 1
    /\ budget' = budget - 1
    /\ lastOk' = None
    /\ UNCHANGED <<aside, platform, colname, ledger, backups, lca_col, head,
                   tag, ncommits, lockHolder, op, pc, err, result, loc>>

(* The user copies a backup over the collection file.                      *)
RestoreBackup ==
    /\ lockHolder = {}
    /\ Idle
    /\ budget > 0
    /\ \E h \in DOMAIN backups :
         /\ backups[h] /= db
         /\ db' = backups[h]
    /\ budget' = budget - 1
    /\ lastOk' = None
    /\ UNCHANGED <<aside, platform, colname, ledger, backups, lca_col, head,
                   tag, ncommits, lockHolder, clock, op, pc, err, result,
                   loc>>

(* The steps of a command that finds the lock free.                        *)
Step(p) ==
    \/ lock(p)
    \/ push_check(p)
    \/ push_diff(p)
    \/ push_write(p)
    \/ push_backup(p)
    \/ push_replace(p)
    \/ push_append(p)
    \/ push_tag(p)
    \/ pull_check(p)
    \/ pull_merge(p)
    \/ pull_append(p)
    \/ pull_commit(p)

(* The steps of a command that finds the lock held.                        *)
Wait(p) ==
    \/ lock_busy(p)
    \/ lock_retry(p)
    \/ lock_timeout(p)

(* The user's own actions, taken while no command runs.                    *)
User ==
    \/ UserCommit
    \/ UserDeleteTag
    \/ UserDiscardLedger
    \/ RestoreBackup

(* A command started, and a change saved in the application, while no      *)
(* command runs.                                                           *)
StartAlone(p, o) == Idle /\ Start(p, o)
AnkiEditAlone == Idle /\ AnkiEdit

(* One command at a time, and the collection is left alone while it runs.  *)
Next ==
    \/ \E p \in Procs : \E o \in {"push", "pull"} : StartAlone(p, o)
    \/ \E p \in Procs : Step(p)
    \/ User
    \/ AnkiEditAlone

(* The steps of a push.                                                    *)
PushStep(p) ==
    \/ lock(p)
    \/ push_check(p)
    \/ push_diff(p)
    \/ push_write(p)
    \/ push_backup(p)
    \/ push_replace(p)
    \/ push_append(p)
    \/ push_tag(p)

(* A note saved in the application with an id ahead of this machine's      *)
(* clock: ids are integers of the database, made by whichever machine and  *)
(* bulk operation added the note.                                          *)
AnkiEditAhead ==
    /\ Idle
    /\ lockHolder = {}
    /\ budget > 0
    /\ \E g \in GUIDs \ {n.guid : n \in db.notes}, x \in Txts :
         db' = [db EXCEPT
                  !.notes = @ \cup {[nid |-> clock + 2, guid |-> g, txt |-> x,
                                     model |-> "Basic",
                                     deck |-> Join(DefaultDir)]},
                  !.mod = clock + 1]
    /\ \A n \in db.notes : n.nid < clock + 2
    /\ clock' = clock + 1
    /\ budget' = budget - 1
    /\ lastOk' = None
    /\ UNCHANGED <<aside, platform, colname, ledger, backups, lca_col, head,
                   tag, ncommits, lockHolder, op, pc, err, result, loc>>

(* Pushes and pulls of a collection that holds such notes.                 *)
NextIds == Next \/ AnkiEditAhead

(* Collections with a cloze notetype, and note files with an empty first   *)
(* field or of the cloze notetype, for the health check to answer 1, 2     *)
(* and 3.                                                                  *)
ClozeFlds == <<"Text", "Back Extra">>
ClozeType == [flds |-> ClozeFlds, rev |-> 0]
HealthModels == ("Basic" :> BasicType) @@ ("Cloze" :> ClozeType)

HealthNotes(nid, guid) ==
    {[nid |-> nid, guid |-> guid, txt |-> t, model |-> m,
      deck |-> Join(DefaultDir)] : t \in Txts, m \in DOMAIN HealthModels}

HealthCols ==
    {[notes |-> {n} \cup ks, mod |-> 0, models |-> HealthModels] :
        n \in HealthNotes(1, "g1"),
        ks \in {{}} \cup {{k} : k \in HealthNotes(2, "g2")}}

HealthContents ==
    [guid : GUIDs, txt : Txts \cup {""}, model : DOMAIN HealthModels,
     keys : {BasicFlds, ClozeFlds}]

(* A clone of such a collection, and one commit by the user that writes    *)
(* one note file.                                                          *)
InitHealth ==
    /\ platform = "posix"
    /\ db \in HealthCols
    /\ colname = PlainName
    /\ ledger = <<HashLine(md5(db), colname)>>
    /\ backups = <<>>
    /\ lca_col = db
    /\ tag = [id |-> 0, tree |-> write_repository(db), led |-> ledger,
              models |-> db.models]
    /\ \E x \in DOMAIN tag.tree \cup UserPaths, c \in HealthContents :
         /\ x \in DOMAIN tag.tree => c /= tag.tree[x]
         /\ head = [id |-> 1,
                    tree |-> [q \in DOMAIN tag.tree \cup {x} |->
                                IF q = x THEN c ELSE tag.tree[q]],
                    led |-> ledger, models |-> db.models]
    /\ ncommits = 2
    /\ lockHolder = {}
    /\ clock = 2
    /\ op = [p \in Procs |-> None]
    /\ pc = [p \in Procs |-> "idle"]
    /\ err = [p \in Procs |-> None]
    /\ result = [p \in Procs |-> None]
    /\ loc = [p \in Procs |-> NoLoc]
    /\ lastOk = None
    /\ budget = 1
    /\ dirty = <<>>
    /\ target = NoTarget
    /\ cl = NoClone
    /\ NoWork
    /\ unlocked = {}
    /\ active = Main
    /\ ki_lca = NoHead

(* One push of that commit.                                                *)
NextHealth ==
    \/ \E p \in Procs : StartAlone(p, "push")
    \/ \E p \in Procs : PushStep(p)

(* get_guid, lines 393-394: the text that is digested.                     *)
contents(fields) == JoinFields(fields)

(* Field texts with and without the separator, and the lists of fields     *)
(* made of them.                                                           *)
SepTexts == {"a", "a__", "__a", "a__a"}
SepFieldLists == UNION {[1..n -> SepTexts] : n \in 1..MaxFields}

(* Two notes without a guid line, of different fields, are to be parsed.   *)
InitGuid ==
    /\ _clone({"posix"}, FALSE, 0)
    /\ wd = NoWalk
    /\ munged = NoDiff
    /\ \E f, g \in SepFieldLists :
         f /= g /\ flatnotes = [todo |-> <<f, g>>, contents |-> <<>>]

(* parse_note, line 415, for a note without a guid line: get_guid makes    *)
(* the digest input of its fields.                                         *)
parse_note ==
    /\ flatnotes.todo /= <<>>
    /\ flatnotes' = [todo |-> Tail(flatnotes.todo),
                     contents |-> Append(flatnotes.contents,
                                         contents(Head(flatnotes.todo)))]
    /\ UNCHANGED <<unlocked, branches, dirty, target, cl, wd, munged,
                   platform, colname, db, ledger, backups, lca_col, head, tag,
                   ncommits, lockHolder, clock, op, pc, err, result, loc,
                   lastOk, budget>>

NextGuid == parse_note

(* The steps of a pull.                                                    *)
PullStep(p) ==
    \/ lock(p)
    \/ pull_check(p)
    \/ pull_merge(p)
    \/ pull_append(p)
    \/ pull_commit(p)

(* Pulls into a working tree that holds uncommitted note files.            *)
NextPull ==
    \/ \E p \in Procs : StartAlone(p, "pull")
    \/ \E p \in Procs : PullStep(p)
    \/ UserCommit
    \/ UserEdit
    \/ AnkiEditAlone

(* Pushes from a working tree that holds uncommitted note files.           *)
NextUncommitted ==
    \/ \E p \in Procs : StartAlone(p, "push")
    \/ \E p \in Procs : PushStep(p)
    \/ UserCommit
    \/ UserEdit
    \/ AnkiEditAlone

(***************************************************************************)
(* write_decks: the cards of a collection written deck by deck.  A card is *)
(* [cid, nid, name, did]: its id, its note, the name of its template and   *)
(* its deck; a deck is the tuple of the parts of its full name, which is   *)
(* also its directory.                                                     *)
(***************************************************************************)
MEDIA == "_media"
Root == <<>>
TopDeck == <<"top">>
DeckA == <<"top", "a">>
DeckB == <<"top", "b">>
MediaDeck == <<"my_media">>

(* col.decks.deck_tree(): the children of a node, by name.                 *)
children(node) ==
    IF node = Root THEN <<MediaDeck, TopDeck>>
    ELSE IF node = TopDeck THEN <<DeckA, DeckB>>
    ELSE <<>>

(* postorder, lines 946-955.                                               *)
RECURSIVE postorder(_)
postorder(node) ==
    LET RECURSIVE over(_)
        over(xs) == IF xs = <<>> THEN <<>>
                    ELSE postorder(Head(xs)) \o over(Tail(xs))
        descendants == over(children(node))
    IN IF node = Root THEN descendants ELSE descendants \o <<node>>

(* MEDIA in d.fullname, for the full names of the tree.                    *)
InFullname(needle, deck) == needle = MEDIA /\ Join(deck) = "my_media"

NotMediaDeck(deck) == ~InFullname(MEDIA, deck)

(* write_decks, lines 1023-1029: the decks in post-order, those whose full *)
(* name holds the name of the media directory left out.                    *)
decks == SelectSeq(postorder(Root), NotMediaDeck)

(* The notes of the collection to write, with the slug of their sort       *)
(* field, and the templates of their cards.                                *)
CardSlug == "a"
CardTemplates ==
    <<[cid |-> 1, nid |-> 1, name |-> "Card 1"],
      [cid |-> 2, nid |-> 1, name |-> "Card 2"],
      [cid |-> 3, nid |-> 1, name |-> "Card 3"],
      [cid |-> 4, nid |-> 2, name |-> "Card 1"]>>
CardNids == {CardTemplates[i].nid : i \in DOMAIN CardTemplates}

(* Every way of putting the cards into the decks.                          *)
CardSets ==
    {{[cid |-> CardTemplates[i].cid, nid |-> CardTemplates[i].nid,
       name |-> CardTemplates[i].name, did |-> f[i]] :
          i \in DOMAIN CardTemplates} :
       f \in [DOMAIN CardTemplates -> Range(postorder(Root))]}

(* col.decks.cids(did, children=False): the cards of the deck itself, by   *)
(* id.                                                                     *)
RECURSIVE SeqByCid(_)
SeqByCid(S) ==
    IF S = {} THEN <<>>
    ELSE LET m == CHOOSE c \in S : \A k \in S : c.cid <= k.cid
         IN <<m>> \o SeqByCid(S \ {m})

cids(cards, did) == SeqByCid({c \in cards : c.did = did})

(* write_decks, line 1033: reduce(write, decks, {}), with write_deck,      *)
(* lines 1045-1058: the cards in the order they are written.               *)
CardQueue(cards) ==
    LET RECURSIVE over(_)
        over(ds) == IF ds = <<>> THEN <<>>
                    ELSE cids(cards, Head(ds)) \o over(Tail(ds))
    IN over(decks)

(* get_note_path, lines 577-587: the name is the slug, with the name of    *)
(* the card after it for a link, and the first index that gives a path     *)
(* not there yet.                                                          *)
get_card_path(taken, deckd, slug, card_name) ==
    LET name == IF card_name /= "" THEN slug \o "_" \o card_name ELSE slug
        i == CHOOSE k \in 0..Cardinality(taken) :
                /\ <<deckd, name, k>> \notin taken
                /\ \A j \in 0..(k - 1) : <<deckd, name, j>> \in taken
    IN <<deckd, name, i>>

(* A CardFileMap keeps the order in which its decks were put in.           *)
MapGet(map, did) ==
    IF \E i \in DOMAIN map : map[i].did = did
    THEN map[CHOOSE i \in DOMAIN map : map[i].did = did].cardfiles
    ELSE <<>>

MapPut(map, did, cardfiles) ==
    IF \E i \in DOMAIN map : map[i].did = did
    THEN [i \in DOMAIN map |->
            IF map[i].did = did
            THEN [did |-> did, cardfiles |-> cardfiles] ELSE map[i]]
    ELSE Append(map, [did |-> did, cardfiles |-> cardfiles])

NoLink == <<>>

(* A note file written, and a link made, at a path.                        *)
Written(fs, path, x) == [q \in DOMAIN fs \cup {path} |->
                           IF q = path THEN x ELSE fs[q]]

(* A write_card that makes a link for every card after the first of its    *)
(* note, also in a deck that has the file or a link.                       *)
write_card_link_each(st, card) ==
    LET cardfile_map == IF card.nid \in DOMAIN st.notefiles
                        THEN st.notefiles[card.nid] ELSE <<>>
        cardfiles == MapGet(cardfile_map, card.did)
        taken == DOMAIN st.files \cup DOMAIN st.links
        first == Len(cardfile_map) = 0
        file == IF first THEN get_card_path(taken, card.did, CardSlug, "")
                ELSE cardfile_map[1].cardfiles[1].file
        link == IF first THEN NoLink
                ELSE get_card_path(taken, card.did, CardSlug, card.name)
        cardfile == [cid |-> card.cid, link |-> link, file |-> file]
    IN [st EXCEPT
          !.files = IF first THEN Written(@, file, card.nid) ELSE @,
          !.links = IF first THEN @ ELSE Written(@, link, file),
          !.notefiles = Written(@, card.nid,
                            MapPut(cardfile_map, card.did,
                                   Append(cardfiles, cardfile)))]

(* write_card, lines 1061-1084, with get_link, lines 1102-1108.            *)
write_card(st, card) ==
    LET cardfile_map == IF card.nid \in DOMAIN st.notefiles
                        THEN st.notefiles[card.nid] ELSE <<>>
        cardfiles == MapGet(cardfile_map, card.did)
        taken == DOMAIN st.files \cup DOMAIN st.links
        first == Len(cardfile_map) = 0
        again == ~first /\ Len(cardfiles) > 0
        file == IF first THEN get_card_path(taken, card.did, CardSlug, "")
                ELSE IF again THEN cardfiles[1].file
                ELSE cardfile_map[1].cardfiles[1].file
        link == IF first THEN NoLink
                ELSE IF again THEN cardfiles[1].link
                ELSE get_card_path(taken, card.did, CardSlug, card.name)
        cardfile == [cid |-> card.cid, link |-> link, file |-> file]
    IN [st EXCEPT
          !.files = IF first THEN Written(@, file, card.nid) ELSE @,
          !.links = IF first \/ again THEN @ ELSE Written(@, link, file),
          !.notefiles = Written(@, card.nid,
                            MapPut(cardfile_map, card.did,
                                   Append(cardfiles, cardfile)))]

(* The walk before its first card.                                         *)
InitCards ==
    /\ _clone({"posix"}, FALSE, 0)
    /\ flatnotes = NoFlat
    /\ munged = NoDiff
    /\ \E cards \in CardSets :
         wd = [cards |-> cards, queue |-> CardQueue(cards),
               notefiles |-> <<>>, files |-> <<>>, links |-> <<>>]

(* write_decks and write_deck: the next card is written.                   *)
write_decks ==
    /\ wd.queue /= <<>>
    /\ wd' = [write_card(wd, Head(wd.queue)) EXCEPT !.queue = Tail(@)]
    /\ UNCHANGED <<unlocked, branches, flatnotes, munged,
                   dirty, target, cl, platform, colname, db, ledger, backups,
                   lca_col, head, tag, ncommits, lockHolder, clock, op, pc,
                   err, result, loc, lastOk, budget>>

NextCards == write_decks

(* The steps of a clone.                                                   *)
CloneStep ==
    \/ clone
    \/ clone_get_target
    \/ clone_init
    \/ clone_write
    \/ clone_commit

(* Clones into another directory, between the pushes and pulls.            *)
NextClone ==
    \/ Next
    \/ CloneStep
    \/ UserTarget

(* Commands and the application run side by side.                          *)
NextConcurrent ==
    \/ \E p \in Procs : \E o \in {"push", "pull"} : Start(p, o)
    \/ \E p \in Procs : Step(p)
    \/ \E p \in Procs : Wait(p)
    \/ User
    \/ AnkiEdit

(* A collection file with a plain name, on a platform other than win32.    *)
Spec == Init /\ [][Next]_vars

SpecUncommitted == Init /\ [][NextUncommitted]_vars

SpecClone == Init /\ [][NextClone]_vars

SpecPull == Init /\ [][NextPull]_vars

SpecIds == Init /\ [][NextIds]_vars

SpecHealth == InitHealth /\ [][NextHealth]_vars

SpecGuid == InitGuid /\ [][NextGuid]_vars

(* The tree of a collection written, for every way its cards lie in the    *)
(* decks.                                                                  *)
SpecCards == InitCards /\ [][NextCards]_vars

(* The same on either platform, with concurrent commands.                  *)
SpecConcurrent == InitConcurrent /\ [][NextConcurrent]_vars

(* A collection file that carries an md5 in its name, as the files of      *)
(* .ki/backups do.                                                         *)
SpecBackupName == InitBackupName /\ [][Next]_vars

(* Sequential use in which the user also moves note files between the      *)
(* directories of the tree.                                                *)
(* Sequential use in which the user also writes note files without GUID.   *)
NextBlankGuid == Next \/ UserCommitBlankGuid
SpecBlankGuid == Init /\ [][NextBlankGuid]_vars

(* Sequential use in which the user also commits note files that do not    *)
(* parse.                                                                  *)
NextMalformed == Next \/ UserCommitMalformed
SpecMalformed == Init /\ [][NextMalformed]_vars

(* Sequential use in which notetypes and the field names of note files      *)
(* change too.                                                             *)
NextNotetypes ==
    \/ Next
    \/ UserCommitFieldNames
    \/ UserCommitModels
    \/ AnkiEditModel
SpecNotetypes == Init /\ [][NextNotetypes]_vars

InitDecks == _clone({"posix"}, FALSE, MaxDeckEvents) /\ NoWork
NextDecks == Next \/ UserMove
SpecDecks == InitDecks /\ [][NextDecks]_vars

(***************************************************************************)
(* Properties.                                                             *)
(***************************************************************************)
Locked(p) == pc[p] \notin Resting \cup {"lock", "busy"}
Fails(p) == pc[p] \notin Resting /\ pc'[p] = "failed"
Completes(p, r) == pc[p] \notin Resting /\ pc'[p] = "done" /\ result'[p] = r

(* C1: no invocation of push or pull fails after it has replaced the      *)
(* collection file or appended its line to the ledger: a push that fails   *)
(* has not put its copy in the place of the collection file, and no        *)
(* failure comes after push's copyfile or after the append_md5sum of push  *)
(* or of _pull.                                                            *)
AfterReplace(p) == op[p] = "push" /\ pc[p] \in {"append", "tag"}
AfterAppend(p) ==
    \/ op[p] = "push" /\ pc[p] = "tag"
    \/ op[p] = "pull" /\ pc[p] = "verify"

C1_NoFailureAfterReplace ==
    [][\A p \in Procs :
         Fails(p) =>
           /\ ~AfterReplace(p)
           /\ ~AfterAppend(p)
           /\ op[p] = "push" => db' /= loc'[p].new_col]_vars

HoldsLock(p) == Locked(p) => p \in lockHolder
OneWriter == \A p, q \in Procs : Locked(p) /\ Locked(q) => p = q

C3_LockHeldToLastStep == OneWriter /\ \A p \in Procs : HoldsLock(p)

(* C4: every step of a push before its replace step, a failing step        *)
(* included, leaves the collection file as it is: deletions, insertions    *)
(* and updates go to the push's own copy.                                  *)
BeforeReplace(p) ==
    op[p] = "push" /\ pc[p] \in {"lock", "busy", "check", "diff", "write", "backup"}

C4_UntouchedBeforeReplace ==
    [][\A p \in Procs : BeforeReplace(p) /\ pc'[p] /= pc[p] => db' = db]_vars

(* C4, witness: a push has failed on a note of a notetype the collection   *)
(* lacks, after it had changed the notes of its copy; the collection file  *)
(* is the one the push read.                                               *)
C4_FailedAfterMutatingCopy ==
    \E p \in Procs :
       /\ op[p] = "push" /\ pc[p] = "failed" /\ err[p] = "MissingNotetypeError"
       /\ md5(db) = loc[p].md5sum
       /\ loc[p].new_col.notes /= db.notes

(* C5: a push whose collection file has an md5 other than the one of the   *)
(* ledger's last line fails at its check with UpdatesRejectedError, and    *)
(* the collection file, the ledger, the backups and the tag are unchanged. *)
C5_StalePushRejected ==
    [][\A p \in Procs :
         (/\ op[p] = "push" /\ pc[p] = "check" /\ pc'[p] /= "check"
          /\ md5(db) /= Last(ledger).md5) =>
           /\ pc'[p] = "failed" /\ err'[p] = "UpdatesRejectedError"
           /\ UNCHANGED <<db, ledger, backups, tag>>]_vars

(* C6: when a push that applied Deltas completes, and the collection file  *)
(* is still the one it wrote, a GUID that no health check removed is in    *)
(* the collection exactly if a note file of the pushed tree carries it.    *)
DbGuids(col) == {n.guid : n \in col.notes}
TreeGuids(tree) == {tree[q].guid : q \in DOMAIN tree}

C6_DbGuidsAreTreeGuids ==
    [][\A p \in Procs :
         Completes(p, "NONTRIVIAL") /\ db = loc[p].new_col =>
           \A g \in GUIDs \ loc[p].unhealthy :
              g \in DbGuids(db) <=> g \in TreeGuids(loc[p].head_tree)]_vars

(* C7: a push run when the last thing done was the clone or a successful   *)
(* push, with no commit and no change of the collection since, goes from   *)
(* its check to its diff and ends there with UP_TO_DATE; none of its steps *)
(* changes the collection file, the ledger, the backups or the tag.  A     *)
(* push that ends so leaves lastOk as it is, so the same is said of every  *)
(* push repeated after it.                                                 *)
NoOpStep(p) ==
    /\ pc'[p] \in {"check", "diff"} \/ Completes(p, "UP_TO_DATE")
    /\ UNCHANGED <<db, ledger, backups, tag>>

C7_PushAfterCloneOrPushIsNoOp ==
    [][\A p \in Procs :
         (/\ op[p] = "push" /\ lastOk \in {"clone", "push"}
          /\ pc[p] \notin Resting /\ pc'[p] /= pc[p]) => NoOpStep(p)]_vars

(* C8: a push run when the last thing done was a pull that found the       *)
(* collection changed and completed is a no-op in each of its steps.       *)
C8_PushAfterPullIsNoOp ==
    [][\A p \in Procs :
         (/\ op[p] = "push" /\ lastOk = "pull"
          /\ pc[p] \notin Resting /\ pc'[p] /= pc[p]) => NoOpStep(p)]_vars

C10_PullWritesChanges ==
    [][\A p \in Procs :
         Completes(p, "PULLED") =>
           /\ DbGuids(db) \ DbGuids(lca_col) \subseteq TreeGuids(head'.tree)
           /\ (DbGuids(lca_col) \ DbGuids(db)) \cap TreeGuids(head'.tree) = {}]_vars

(* ------------------------------------------------------------------------ *)
(* C11: a pull conflicts only on genuine divergence.  When the checkpoint   *)
(* tag exists and no record file was changed both by the commits made since *)
(* the tag and by the database since the last sync, the merge step of a     *)
(* pull does not fail; the one failure left is git refusing to switch       *)
(* branches over an uncommitted .ki/hashes, which is no merge conflict.     *)
UserChanged == {q \in DOMAIN tag.tree \cup DOMAIN head.tree :
                   ~SamePath(tag.tree, head.tree, q)}

DbChanged ==
    {q \in DOMAIN write_repository(lca_col) \cup DOMAIN write_repository(db) :
        ~SamePath(write_repository(lca_col), write_repository(db), q)}

NoDivergence == tag /= NoTag /\ UserChanged \cap DbChanged = {}

CheckoutRefused == ledger /= head.led /\ tag.led /= head.led

C12_FailedPullLeavesLedger ==
    [][\A p \in Procs :
          (op[p] = "pull" /\ pc[p] \in {"_pull", "append", "verify"}
              /\ pc'[p] = "failed")
          => ledger' = loc[p].hashes]_vars

(* ------------------------------------------------------------------------ *)
(* C13: the ledger is append-only.  Every step of a push or a pull leaves   *)
(* the ledger file with its former content as a prefix.                     *)
IsPrefix(s, t) == Len(s) <= Len(t) /\ SubSeq(t, 1, Len(s)) = s

OperationStep(p) == pc[p] \notin Resting /\ pc'[p] /= pc[p]

C13_LedgerAppendOnly ==
    [][\A p \in Procs : OperationStep(p) => IsPrefix(ledger, ledger')]_vars

(* ------------------------------------------------------------------------ *)
(* C14: when a clone, a push that wrote the collection or a pull that       *)
(* merged has returned, and until something else changes, the last line of  *)
(* the ledger is the md5 of the collection file as it is, followed by the   *)
(* file's name; a pull or push started next finds that hash in the last     *)
(* line.                                                                    *)
AtRestOrChecking == \A p \in Procs : pc[p] \in Resting \cup {"lock", "check"}

C14_LastLineIsLiveHash ==
    (lastOk /= None /\ AtRestOrChecking)
    => /\ Last(ledger) = HashLine(md5(db), colname)
       /\ LineContains(Last(ledger), md5(db))

(* A push that wrote the collection has returned, and the next command is   *)
(* at its check.                                                            *)
C14_CheckingAfterPush ==
    \E p \in Procs : pc[p] = "check" /\ lastOk = "push" /\ Len(ledger) > 1

(* ------------------------------------------------------------------------ *)
(* C15: a push puts its copy in the place of the collection file only when  *)
(* the backups hold, under the md5 of the file it replaces, the bytes of    *)
(* that file; the backup step leaves the collection file alone, writes the  *)
(* backup and returns 0 when none of that name exists, and writes nothing   *)
(* and returns 1 when one exists.                                           *)
HasBackup(bs, col) == md5(col) \in DOMAIN bs /\ bs[md5(col)] = col

C15_BackupBeforeReplace ==
    [][\A p \in Procs :
          /\ (op[p] = "push" /\ OperationStep(p) /\ db' /= db)
                => (pc[p] = "replace" /\ HasBackup(backups, db)
                       /\ backups' = backups)
          /\ (op[p] = "push" /\ pc[p] = "backup" /\ OperationStep(p))
                => /\ db' = db /\ pc'[p] = "replace"
                   /\ HasBackup(backups', db)
                   /\ backup_returncode(backups, db) = 1
                        <=> HasBackup(backups, db)
                   /\ backup_returncode(backups, db) = 1
                        => backups' = backups
                   /\ backup_returncode(backups, db) = 0
                        => DOMAIN backups' = DOMAIN backups \cup {md5(db)}]_vars

(* A push is about to replace the first collection, restored from its       *)
(* backup after an earlier push: the backup it needs was there before.      *)
C15_BackupAlreadyThere ==
    \E p \in Procs :
        /\ op[p] = "push" /\ pc[p] = "replace"
        /\ db \in InitCols /\ Len(ledger) > 1
        /\ DOMAIN backups = {md5(db)} /\ HasBackup(backups, db)

(* ------------------------------------------------------------------------ *)
(* C16, as stated: the staleness check of push is fatal only when the md5   *)
(* of the collection file is in no line of the ledger.                      *)
Rejected(p) ==
    /\ op[p] = "push" /\ pc[p] = "check"
    /\ pc'[p] = "failed" /\ err'[p] = "UpdatesRejectedError"

C16_FatalOnlyWhenAbsent ==
    [][\A p \in Procs :
          Rejected(p) => \A i \in 1..Len(ledger) : ledger[i].md5 /= md5(db)]_vars

(* C16, as the code has it: the staleness check of push looks at the last   *)
(* line of the ledger only, and is fatal exactly when the md5 of the        *)
(* collection file does not occur in that line, be it in an earlier one.    *)
InLastLine ==
    \/ Last(ledger).md5 = md5(db)
    \/ Last(ledger).tag = Md5Name(md5(db))

C16_FatalUnlessInLastLine ==
    [][\A p \in Procs :
          (op[p] = "push" /\ pc[p] = "check" /\ OperationStep(p))
          => (Rejected(p) <=> ~InLastLine)]_vars

(* A push was rejected although an earlier line of the ledger holds the     *)
(* md5 of the collection file.                                              *)
C16_RejectedThoughInLedger ==
    \E p \in Procs :
        /\ op[p] = "push" /\ pc[p] = "failed"
        /\ err[p] = "UpdatesRejectedError"
        /\ md5(db) = loc[p].md5sum
        /\ \E i \in 1..(Len(ledger) - 1) : ledger[i].md5 = md5(db)

(* ------------------------------------------------------------------------ *)
(* C17, as stated: for a diff entry reported as a rename whose two files    *)
(* have the same GUID, mungediff gives one Delta, of status Renamed and at  *)
(* the new path, and the change list has no other Delta for the old or the  *)
(* new path; the push that applies it leaves the note of that GUID in the   *)
(* collection, with the id it had and with the deck named after the         *)
(* directories of the new path.                                             *)
SameGuidRenames(a, b, r) == {o \in DOMAIN r : a[o].guid = b[r[o]].guid}

OneRenamedDelta(a, b, r, o) ==
    LET ds == diff2(a, b, r)
    IN /\ mungediff(a, b, r, r[o]) = <<Delta(RENAMED, r[o], b[r[o]])>>
       /\ Cardinality({i \in DOMAIN ds : ds[i].path \in {o, r[o]}}) = 1

RenamedApplied(col, new_col, d) ==
    LET g == parse(d).guid
    IN \E n \in col.notes :
          /\ n.guid = g
          /\ n.nid = get_note_metadata(col)[g]
          /\ [n EXCEPT !.deck = Join(d.path[1]), !.txt = d.note.txt,
                       !.model = d.note.model] \in new_col.notes

DiffsRenames(p) ==
    LET a == write_repository(db)
        b == head.tree
    IN (op[p] = "push" /\ pc[p] = "diff")
         => \A r \in RenamePairings(a, b) :
               \A o \in SameGuidRenames(a, b, r) : OneRenamedDelta(a, b, r, o)

Writes(p) == op[p] = "push" /\ pc[p] = "write" /\ pc'[p] = "backup"

C17_RenameSameGuid ==
    [][\A p \in Procs :
          /\ DiffsRenames(p)
          /\ Writes(p)
               => \A i \in DOMAIN loc[p].deltas :
                     loc[p].deltas[i].status = RENAMED
                     => RenamedApplied(db, loc'[p].new_col,
                                       loc[p].deltas[i])]_vars

(* C17, as the code has it: the same, for a rename whose GUID no other      *)
(* Delta of the pass carries and whose note the health check that follows   *)
(* the update does not remove.                                              *)
OnlyDeltaOfGuid(ds, i) ==
    \A j \in DOMAIN ds \ {i} : parse(ds[j]).guid /= parse(ds[i]).guid

C17_RenameSameGuidAlone ==
    [][\A p \in Procs :
          /\ DiffsRenames(p)
          /\ Writes(p)
               => \A i \in DOMAIN loc[p].deltas :
                     (/\ loc[p].deltas[i].status = RENAMED
                      /\ OnlyDeltaOfGuid(loc[p].deltas, i)
                      /\ parse(loc[p].deltas[i]).guid
                            \notin loc'[p].unhealthy)
                     => RenamedApplied(db, loc'[p].new_col,
                                       loc[p].deltas[i])]_vars

(* A push has replaced the collection after a note file was moved: the note *)
(* has the id it had and its deck is named after the new directories.       *)
C17_MovedNoteChangedDeck ==
    \E p \in Procs :
        /\ op[p] = "push" /\ pc[p] = "append"
        /\ \E i \in DOMAIN loc[p].deltas :
              /\ loc[p].deltas[i].status = RENAMED
              /\ loc[p].deltas[i].path[1] /= DefaultDir
              /\ \E n \in db.notes :
                    /\ n.guid = loc[p].deltas[i].note.guid
                    /\ n.nid = Note1.nid
                    /\ n.deck = "aa::dd"

(* ------------------------------------------------------------------------ *)
(* C18: for a diff entry reported as a rename whose two files have          *)
(* different GUIDs, mungediff gives two Deltas, Deleted at the old path and *)
(* then Added at the new path; when the push has applied the change list,   *)
(* the collection has no note of the old GUID and has a note of the new     *)
(* GUID.  The second half is stated for the renames it is fairest to:       *)
(* those neither of whose GUIDs another Delta of the pass carries, and      *)
(* whose new note the health check that follows the update does not remove. *)
OtherGuidRenames(a, b, r) == {o \in DOMAIN r : a[o].guid /= b[r[o]].guid}

DeletedThenAdded(a, b, r, o) ==
    mungediff(a, b, r, r[o])
       = <<Delta(DELETED, o, a[o]), Delta(ADDED, r[o], b[r[o]])>>

DiffsOtherGuidRenames(p) ==
    LET a == write_repository(db)
        b == head.tree
    IN (op[p] = "push" /\ pc[p] = "diff")
         => \A r \in RenamePairings(a, b) :
               \A o \in OtherGuidRenames(a, b, r) : DeletedThenAdded(a, b, r, o)

OldAbsentNewPresent(a, b, r, o, new_col) ==
    /\ a[o].guid \notin DbGuids(new_col)
    /\ b[r[o]].guid \in DbGuids(new_col)

OnlyDeltasOfGuids(ds, a, b, r, o) ==
    \A j \in DOMAIN ds :
        ds[j].path \notin {o, r[o]}
        => parse(ds[j]).guid \notin {a[o].guid, b[r[o]].guid}

C18_RenameOtherGuid ==
    [][\A p \in Procs :
          /\ DiffsOtherGuidRenames(p)
          /\ Writes(p)
               => LET a == write_repository(db)
                      b == loc[p].head_tree
                      r == loc[p].diffidx
                  IN \A o \in OtherGuidRenames(a, b, r) :
                        (/\ OnlyDeltasOfGuids(loc[p].deltas, a, b, r, o)
                         /\ b[r[o]].guid \notin loc'[p].unhealthy)
                        => OldAbsentNewPresent(a, b, r, o,
                                               loc'[p].new_col)]_vars

(* ------------------------------------------------------------------------ *)
(* C19: the push never puts in the place of the collection file a           *)
(* collection in which two notes have the same GUID.                        *)
UniqueGuids(col) == \A n, m \in col.notes : n.guid = m.guid => n = m

C19_PushKeepsGuidsUnique ==
    [][\A p \in Procs :
          (op[p] = "push" /\ pc[p] = "replace" /\ pc'[p] = "append"
              /\ UniqueGuids(db))
          => UniqueGuids(db')]_vars

(* ------------------------------------------------------------------------ *)
(* C20: the GUID of a parsed note file is a function of the file alone.  A  *)
(* file with a guid line keeps that GUID; a file without one gets           *)
(* get_guid of its fields, whatever its path, status or notetype, so that   *)
(* two such files with the same fields in the same order get the same GUID; *)
(* and two lists of fields that differ in one byte of one field have        *)
(* different GUIDs.  The note that a push writes for the file has the GUID  *)
(* so resolved.                                                             *)
FieldLists ==
    UNION {[1..n -> FieldTexts] : n \in 1..MaxFields} \cup {<<t>> : t \in Txts}

OneByteApart(f, g) ==
    /\ Len(f) = Len(g)
    /\ Cardinality({i \in DOMAIN f : f[i] /= g[i]}) = 1

DerivedGuidsDiffer ==
    \A f, g \in FieldLists : OneByteApart(f, g) => get_guid(f) /= get_guid(g)

ResolvedGuid(note) ==
    IF note.guid /= "" THEN note.guid ELSE get_guid(Fields(note))

GuidOfFileAlone(ds) ==
    \A i, j \in DOMAIN ds :
        /\ parse(ds[i]).guid = ResolvedGuid(ds[i].note)
        /\ (ds[i].note.guid = "" /\ ds[j].note.guid = ""
               /\ Fields(ds[i].note) = Fields(ds[j].note))
             => parse(ds[i]).guid = parse(ds[j]).guid

ParsesDelta(d) == parses(d.note)

MalformedUpserts(ds) == {i \in DOMAIN ds : NotDel(ds[i]) /\ ~ParsesDelta(ds[i])}

C21_MalformedFileWarnsOnly ==
    [][\A p \in Procs :
          /\ (op[p] = "push" /\ pc[p] = "write" /\ OperationStep(p)
                 /\ MalformedUpserts(loc[p].deltas) /= {})
             => /\ err'[p] /= "UnexpectedInput"
                /\ loc'[p].new_col.notes
                     = write_collection_copy(
                          db, SelectSeq(loc[p].deltas, ParsesDelta),
                          loc[p].models, clock + 1).notes
          /\ (op[p] = "push" /\ pc[p] = "diff" /\ Fails(p))
             => /\ err'[p] = "UnexpectedInput"
                /\ \E r \in RenamePairings(write_repository(db), head.tree) :
                      mungediff_raises(write_repository(db), head.tree, r)]_vars

(* ------------------------------------------------------------------------ *)
(* C22: when the ordered field names of a pushed note file are not the      *)
(* ordered field names of its notetype, applying the Delta warns            *)
(* (WrongFieldCountWarning or InconsistentFieldNamesWarning) and raises     *)
(* nothing, and the text of the note's fields in the collection is what it  *)
(* was before; when the names are those of the notetype there is no such    *)
(* warning.  Stated for the Deltas whose GUID no other Delta of the pass    *)
(* carries.                                                                 *)
FieldWarnings(g) ==
    {Warning("WrongFieldCountWarning", g),
     Warning("InconsistentFieldNamesWarning", g)}

NamesMatch(models, decknote) == decknote.keys = models[decknote.model].flds

FieldTextKept(col, new_col, g) ==
    \A n \in col.notes :
        n.guid = g => \E m \in new_col.notes : m.nid = n.nid /\ m.txt = n.txt

C22_FieldMismatchWarnsAndKeepsText ==
    [][\A p \in Procs :
          Writes(p)
          => \A i \in DOMAIN loc[p].deltas :
                LET d == loc[p].deltas[i]
                    g == parse(d).guid
                    new_col == loc'[p].new_col
                IN (NotDel(d) /\ OnlyDeltaOfGuid(loc[p].deltas, i))
                   => IF NamesMatch(new_col.models, parse(d))
                      THEN FieldWarnings(g) \cap loc'[p].warnings = {}
                      ELSE /\ FieldWarnings(g) \cap loc'[p].warnings /= {}
                           /\ FieldTextKept(db, new_col, g)]_vars

(* ------------------------------------------------------------------------ *)
(* C23: a push whose tree holds only notetypes that the collection has      *)
(* under the same name and with the same content adds no notetype: the      *)
(* copy it writes has the notetypes of the collection, and no step of a     *)
(* push or a pull made with such a tree changes the notetypes of the        *)
(* collection file.                                                         *)
TreeModelsKnown(col, models) ==
    \A m \in DOMAIN models : m \in DOMAIN col.models /\ col.models[m] = models[m]

C23_KnownSchemasAddNothing ==
    [][\A p \in Procs :
          /\ (Writes(p) /\ TreeModelsKnown(db, loc[p].models))
             => loc'[p].new_col.models = db.models
          /\ (OperationStep(p) /\ TreeModelsKnown(db, head.models))
             => db'.models = db.models]_vars

(* A second push has replaced the collection, and the collection has the    *)
(* notetypes it was cloned with, which are those of the tree.               *)
C23_PushedTwiceSameSchemas ==
    \E p \in Procs :
        /\ op[p] = "push" /\ pc[p] = "append"
        /\ Cardinality(DOMAIN backups) >= 2
        /\ TreeModelsKnown(db, head.models)
        /\ loc[p].models = head.models
        /\ db.models = DbModels

(* ------------------------------------------------------------------------ *)
(* C24: a push whose tree holds a notetype under a name the collection has  *)
(* with another content warns (NotetypeCollisionWarning), adds no notetype  *)
(* for it, and leaves the notetype of the collection as it is: the copy it  *)
(* writes has a notetype more only for the names the collection lacked.     *)
Collisions(col, models) ==
    {m \in DOMAIN models \cap DOMAIN col.models : col.models[m] /= models[m]}

C24_CollisionWarnsAndAddsNothing ==
    [][\A p \in Procs :
          Writes(p)
          => LET new == loc'[p].new_col.models
             IN /\ \A m \in Collisions(db, loc[p].models) :
                      /\ Warning("NotetypeCollisionWarning", m)
                            \in loc'[p].warnings
                      /\ new[m] = db.models[m]
                /\ DOMAIN new = DOMAIN db.models \cup DOMAIN loc[p].models]_vars

(* ------------------------------------------------------------------------ *)
(* C27: when a push that wrote the collection has returned, the working     *)
(* tree is clean: the ledger file, with the line the push appended, is the  *)
(* ledger file of the commit at HEAD.                                       *)
C27_PushLeavesTreeClean ==
    [][\A p \in Procs :
          (op[p] = "push" /\ Completes(p, "NONTRIVIAL"))
          => ledger' = head'.led]_vars


(***************************************************************************)
(* C26: a push writes only what is committed at HEAD.  Note files of the   *)
(* working tree that are not committed, edits of files HEAD holds and new  *)
(* files alike, give no Delta: the Deltas a push finds are those between   *)
(* the clone of the collection and the tree at HEAD; and a push from a     *)
(* repository whose HEAD is the checkpoint reports up-to-date, leaves the  *)
(* collection as it is and writes no backup.                               *)
(***************************************************************************)
CommittedDeltas ==
    {diff2(write_repository(db), head.tree, r) :
        r \in RenamePairings(write_repository(db), head.tree)}

C26_PushWritesOnlyCommitted ==
    [][\A p \in Procs :
         (op[p] = "push" /\ pc[p] = "diff") =>
            /\ pc'[p] = "write" => loc'[p].deltas \in CommittedDeltas
            /\ head.id = tag.id =>
                  /\ Completes(p, "UP_TO_DATE")
                  /\ db' = db
                  /\ backups' = backups]_vars


(***************************************************************************)
(* C30: in one push every Deleted Delta is applied before any other Delta, *)
(* and the upserts look their GUIDs up in a map without the deleted ones.  *)
(* So when a push has written its copy, a GUID that a Deleted Delta and an *)
(* Added or Modified Delta both carry has exactly one record in the copy,  *)
(* and that record is not the one the collection had; and a Deleted Delta  *)
(* whose GUID the collection does not hold changes nothing: the copy, and  *)
(* whether the write fails, are as without that Delta.                     *)
(***************************************************************************)
DeletedGuids(ds) == {parse(ds[i]).guid : i \in {j \in DOMAIN ds : IsDel(ds[j])}}
UpsertGuids(ds) == {parse(ds[i]).guid : i \in {j \in DOMAIN ds : NotDel(ds[j])}}
RecordsOf(col, g) == {n \in col.notes : n.guid = g}

KnownDelete(col, d) == NotDel(d) \/ parse(d).guid \in DbGuids(col)
WithoutUnknownDeletes(col, ds) ==
    LET RECURSIVE keep(_)
        keep(xs) == IF xs = <<>> THEN <<>>
                    ELSE IF KnownDelete(col, Head(xs))
                    THEN <<Head(xs)>> \o keep(Tail(xs))
                    ELSE keep(Tail(xs))
    IN keep(ds)

C30_DeletesBeforeUpserts ==
    [][\A p \in Procs :
         (op[p] = "push" /\ pc[p] = "write" /\ pc'[p] /= "write") =>
            LET ds == loc[p].deltas
                st == write_collection_copy(db, ds, loc[p].models, clock + 1)
                without == write_collection_copy(
                               db, WithoutUnknownDeletes(db, ds),
                               loc[p].models, clock + 1)
            IN /\ Writes(p) =>
                    \A g \in DeletedGuids(ds) \cap UpsertGuids(ds) :
                       /\ Cardinality(RecordsOf(loc'[p].new_col, g)) = 1
                       /\ RecordsOf(loc'[p].new_col, g) \cap db.notes = {}
               /\ st.notes = without.notes
               /\ st.err = without.err
               /\ Fails(p) <=> without.err /= None]_vars


(* C30, as the code has it: the same, for a GUID that one Delta only of    *)
(* those that are not deletions carries, and whose note the health check   *)
(* that follows the upsert does not remove.                                *)
OneUpsertOf(ds, g) ==
    Cardinality({i \in DOMAIN ds : NotDel(ds[i]) /\ parse(ds[i]).guid = g}) = 1

C30_DeletesBeforeUpsertsHealthy ==
    [][\A p \in Procs :
         (op[p] = "push" /\ pc[p] = "write" /\ pc'[p] /= "write") =>
            LET ds == loc[p].deltas
                st == write_collection_copy(db, ds, loc[p].models, clock + 1)
                without == write_collection_copy(
                               db, WithoutUnknownDeletes(db, ds),
                               loc[p].models, clock + 1)
            IN /\ Writes(p) =>
                    \A g \in (DeletedGuids(ds) \cap UpsertGuids(ds))
                                \ loc'[p].unhealthy :
                       OneUpsertOf(ds, g) =>
                          /\ Cardinality(RecordsOf(loc'[p].new_col, g)) = 1
                          /\ RecordsOf(loc'[p].new_col, g) \cap db.notes = {}
               /\ st.notes = without.notes
               /\ st.err = without.err
               /\ Fails(p) <=> without.err /= None]_vars

(* A push has written its copy from a Deleted and an Added Delta of one    *)
(* GUID: the copy holds one record of it, with a new id.                   *)
C30_MovedAndEditedWritten ==
    \E p \in Procs :
       /\ op[p] = "push" /\ pc[p] = "backup"
       /\ \E g \in (DeletedGuids(loc[p].deltas)
                     \cap UpsertGuids(loc[p].deltas)) \ loc[p].unhealthy :
             /\ OneUpsertOf(loc[p].deltas, g)
             /\ Cardinality(RecordsOf(loc[p].new_col, g)) = 1
             /\ RecordsOf(loc[p].new_col, g) \cap db.notes = {}


(***************************************************************************)
(* C29: a clone into a directory that has entries fails with               *)
(* TargetExistsError and leaves the directory as it is; when a clone fails *)
(* after its target was chosen, a directory the clone itself made is       *)
(* removed, and one that was there, empty, is kept and is empty again.     *)
(***************************************************************************)
CloneFailsInside ==
    cl.pc \in {"init", "write", "commit"} /\ cl'.pc = "failed"

Moves(p) == pc'[p] /= pc[p]

C28_ClonePullLeaveCollection ==
    [][/\ cl' /= cl => md5(db') = md5(db)
       /\ \A p \in Procs :
            /\ (op[p] = "pull" /\ pc[p] \notin Resting /\ Moves(p))
                  => md5(db') = md5(db)
            /\ (op[p] = "push" /\ pc[p] \notin Resting /\ Moves(p)
                  /\ md5(db') /= md5(db))
                  => pc[p] = "replace" /\ loc[p].deltas /= <<>>]_vars

(* A clone has gone through opening, reading and closing the collection.   *)
C28_CloneReadCollection == cl.pc \in {"commit", "done"}


(***************************************************************************)
(* C25: when the whole tree is written, every note has exactly one real    *)
(* file, in the directory of the first deck in post-order that itself has  *)
(* one of its cards; every other deck that itself has one of its cards has *)
(* exactly one link to that file, named by the slug of the note and the    *)
(* name of a card template, however many of the note's cards it has; and a *)
(* deck that has none of its cards has neither file nor link for it.       *)
(***************************************************************************)
WalkDone == wd.cards /= {} /\ wd.queue = <<>>

Owners(n, order) ==
    {c.did : c \in {k \in wd.cards : k.nid = n}} \cap Range(order)
FilesOf(n) == {q \in DOMAIN wd.files : wd.files[q] = n}
LinksOf(n) == {q \in DOMAIN wd.links : wd.links[q] \in FilesOf(n)}
LinkNames(n, d) ==
    {CardSlug \o "_" \o c.name :
        c \in {k \in wd.cards : k.nid = n /\ k.did = d}}

FirstOwner(n, order) ==
    order[CHOOSE i \in DOMAIN order :
             /\ order[i] \in Owners(n, order)
             /\ \A j \in 1..(i - 1) : order[j] \notin Owners(n, order)]

(* The files and links of note n are as said, the decks of order being     *)
(* those that count as owners of cards.                                    *)
OneFileAndLinks(n, order) ==
    /\ Cardinality(FilesOf(n)) = 1
    /\ \A q \in FilesOf(n) : q[1] = FirstOwner(n, order)
    /\ \A d \in Range(postorder(Root)) :
         LET here == {q \in LinksOf(n) : q[1] = d}
         IN IF d \notin Owners(n, order)
            THEN here = {} /\ \A q \in FilesOf(n) : q[1] /= d
            ELSE IF d = FirstOwner(n, order)
            THEN here = {}
            ELSE /\ Cardinality(here) = 1
                 /\ \A q \in here : q[2] \in LinkNames(n, d)

Terminates(p) == Locked(p) /\ pc'[p] \in {"done", "failed"}

(* C36: whenever a push or a pull that has acquired the lock returns or    *)
(* raises, it has called unlock by then.                                   *)
C36_UnlockOnEveryPath ==
    [][\A p \in Procs : Terminates(p) => p \in unlocked']_vars

(* C36, the part that holds: an invocation that has returned or raised     *)
(* does not hold the lock, and one that called unlock has completed.       *)
C36_FinishedHoldsNoLock ==
    \A p \in Procs :
        /\ pc[p] \in {"done", "failed"} => p \notin lockHolder
        /\ p \in unlocked =>
             pc[p] = "done" /\ result[p] \in {"NONTRIVIAL", "PULLED"}

(* C36, the paths that end without the call: the up-to-date return of a    *)
(* pull and a rejected push.                                               *)
C36_ReturnedWithoutUnlock ==
    \E p \in Procs :
        /\ p \notin unlocked
        /\ \/ op[p] = "pull" /\ pc[p] = "done" /\ result[p] = "UP_TO_DATE"
           \/ op[p] = "push" /\ err[p] = "UpdatesRejectedError"

(* C36, a path that ends with the call: a push that wrote the collection.  *)
C36_PushUnlocked ==
    \E p \in Procs :
        p \in unlocked /\ op[p] = "push" /\ result[p] = "NONTRIVIAL"

(***************************************************************************)
(* C37: the branches after a pull.                                         *)
(***************************************************************************)
(* C37: in the state a pull ends in, by returning or by raising, the       *)
(* branch checked out is the one it started on and there is no branch      *)
(* KI-LCA.                                                                 *)
C37_NoBranchLeftBehind ==
    [][\A p \in Procs :
         (op[p] = "pull" /\ Terminates(p)) =>
            active' = active /\ ki_lca' = NoHead]_vars

(* C37, the part that holds: between the steps of the commands the branch  *)
(* checked out is always the caller's.                                     *)
C37_OnOriginalBranch == active = Main

(* C37, the state that refutes it: a pull has died of a git error and the  *)
(* branch KI-LCA is there, at the commit of the checkpoint tag.            *)
C37_FailedPullLeftBranch ==
    \E p \in Procs :
        /\ op[p] = "pull" /\ pc[p] = "failed" /\ err[p] = "GitCommandError"
        /\ ki_lca = {tag.id}
        /\ active = Main

(***************************************************************************)
(* C34: the checkpoint tag is deleted and created anew.                    *)
(***************************************************************************)
(* C34: the last step of a push that wrote the collection fails, and       *)
(* leaves the repository without a tag, when there is no tag; otherwise    *)
(* the push completes and the tag is at HEAD, the commit that was pushed.  *)
(* A pull that finds no tag fails and creates none.                        *)
C34_TagDeletedThenCreated ==
    [][\A p \in Procs :
         /\ (op[p] = "push" /\ pc[p] = "tag" /\ pc'[p] /= "tag") =>
               IF tag = NoTag
               THEN Fails(p) /\ err'[p] = "GitCommandError" /\ tag' = NoTag
               ELSE /\ Completes(p, "NONTRIVIAL")
                    /\ tag' = head'
                    /\ head' = head
                    /\ tag'.tree = loc[p].head_tree
         /\ (op[p] = "pull" /\ pc[p] = "_pull" /\ pc'[p] /= "_pull"
                /\ tag = NoTag) =>
               Fails(p) /\ tag' = NoTag]_vars

(* C34, witness: a push has failed at its last step for want of a tag, the *)
(* collection already replaced, and there is still no tag.                 *)
C34_PushWithoutTagFailed ==
    \E p \in Procs :
        /\ op[p] = "push" /\ pc[p] = "failed" /\ err[p] = "GitCommandError"
        /\ tag = NoTag
        /\ db /= lca_col

(***************************************************************************)
(* C38: lca.anki2 and the checkpoint tag are set together.                 *)
(***************************************************************************)
(* The live collection is copied over lca.anki2: the step of a push at     *)
(* overwrite_lca_col_file.                                                 *)
CopySet ==
    \E p \in Procs :
        /\ op[p] = "push" /\ pc[p] = "append" /\ pc'[p] = "tag"
        /\ lca_col' = db /\ db' = db

(* The tag is placed at HEAD by a push that completes, lca.anki2 being the *)
(* live collection.                                                        *)
TagSet ==
    \E p \in Procs :
        /\ op[p] = "push" /\ Completes(p, "NONTRIVIAL")
        /\ tag' = head' /\ lca_col' = db'

(* C38: after the clone lca.anki2 is the collection and the tag is at      *)
(* HEAD; lca.anki2 is changed only by a push, to the collection it has     *)
(* written, and the tag is then placed at HEAD by the same push with       *)
(* lca.anki2 still that collection, or was deleted by hand; no step of a   *)
(* pull changes either; and when no command runs after a push that         *)
(* completed or the clone, the two are as they were set.                   *)
C38_CopyAndTagSetTogether ==
    /\ lca_col = db /\ tag = head
    /\ [][/\ lca_col' /= lca_col => CopySet
          /\ tag' /= tag => TagSet \/ tag' = NoTag
          /\ \A p \in Procs :
                /\ (op[p] = "pull" /\ pc'[p] /= pc[p]) =>
                      UNCHANGED <<lca_col, tag>>
                /\ (op[p] = "push" /\ Completes(p, "NONTRIVIAL")) => TagSet
                /\ (op[p] = "push" /\ pc[p] = "append" /\ pc'[p] /= "append")
                      => CopySet
          /\ (Idle /\ lastOk \in {"clone", "push"}) =>
                lca_col = db /\ tag = head]_vars

(* C38, witness: a push has moved both, then the collection was changed    *)
(* in the application and pulled, and lca.anki2 and the tag are still      *)
(* those of the push while the collection and HEAD have moved on.          *)
C38_PullAfterPushKeptBoth ==
    \E p \in Procs :
        /\ Idle /\ lastOk = "pull"
        /\ op[p] = "pull" /\ result[p] = "PULLED"
        /\ tag.id /= 0 /\ tag /= head
        /\ lca_col /= db
        /\ lca_col \notin InitCols

(***************************************************************************)
(* C35: the ids of the records a push inserts.                             *)
(***************************************************************************)
(* The ids the write step of push p takes from new_nids, and the records   *)
(* of the copy it works on that its Deleted deltas do not remove.          *)
Minted(p) ==
    LET st == write_collection_copy(db, loc[p].deltas, loc[p].models,
                                    clock + 1)
    IN (clock + 1)..(st.new_nids - 1)

Kept(p) ==
    LET dels == SelectSeq(loc[p].deltas, IsDel)
        meta == get_note_metadata(db)
        del_guids == {parse(dels[i]).guid : i \in DOMAIN dels} \cap DOMAIN meta
    IN {n \in db.notes : n.nid \notin {meta[g] : g \in del_guids}}

Writing(p) == op[p] = "push" /\ pc[p] = "write" /\ pc'[p] /= "write"

(* C35: the ids a push mints are the successive integers from its start    *)
(* time on, and none of them is the id of a record the copy holds.         *)
C35_MintedIdsFresh ==
    [][\A p \in Procs :
         Writing(p) => \A n \in Kept(p) : n.nid \notin Minted(p)]_vars

(* C35, the part that holds: the ids minted by one push are distinct, one  *)
(* per record inserted, from the start time upwards, and a record of the   *)
(* copy whose id is not minted is not lost to an insertion.                *)
C35_MintedIdsDistinct ==
    [][\A p \in Procs :
         Writing(p) =>
           /\ \A n, k \in loc'[p].new_col.notes : n.nid = k.nid => n = k
           /\ \A n \in loc'[p].new_col.notes :
                 n \notin db.notes /\ n.nid \notin {k.nid : k \in db.notes}
                   => n.nid \in Minted(p)]_vars

(***************************************************************************)
(* C33: the health check after the fields are written.                     *)
(***************************************************************************)
HealthKinds ==
    {"EmptyNoteWarning", "DuplicateNoteWarning", "UnhealthyNoteWarning"}

KindOf(health) ==
    IF health = 1 THEN "EmptyNoteWarning"
    ELSE IF health = 2 THEN "DuplicateNoteWarning"
    ELSE "UnhealthyNoteWarning"

(* The one Delta of push p, when it has one and that is not a deletion,    *)
(* the id of the record it is applied to, and that record as the Delta     *)
(* writes it.                                                              *)
OneUpsert(p) == Len(loc[p].deltas) = 1 /\ NotDel(loc[p].deltas[1])
Decknote(p) == parse(loc[p].deltas[1])
NidOf(p) ==
    LET meta == get_note_metadata(db)
    IN IF Decknote(p).guid \in DOMAIN meta THEN meta[Decknote(p).guid]
       ELSE clock + 1
AsWritten(p) ==
    [nid |-> NidOf(p), guid |-> Decknote(p).guid, txt |-> Decknote(p).txt,
     model |-> Decknote(p).model, deck |-> Decknote(p).deck]

(* What the write step of push p has made of the record: it is in the      *)
(* copy, passes the health check and no health warning is about it; or it  *)
(* is not in the copy, the record as written fails the check, and the one  *)
(* health warning about it is of the kind of the answer.                   *)
HealthChecked(p) ==
    LET after == loc'[p].new_col.notes
        rec == {n \in after : n.nid = NidOf(p)}
        hw == {w \in loc'[p].warnings :
                 w.about = Decknote(p).guid /\ w.kind \in HealthKinds}
        health == fields_check(after \cup {AsWritten(p)}, NidOf(p))
    IN IF rec /= {}
       THEN hw = {} /\ fields_check(after, NidOf(p)) = 0
       ELSE health /= 0 /\ hw = {Warning(KindOf(health), Decknote(p).guid)}

FieldsFit(p) ==
    validate_decknote_fields(HealthModels[Decknote(p).model], Decknote(p)) = {}

(* C33: every record a Delta is applied to is health-checked: it stays,    *)
(* without a health warning, only when the check answers 0, and otherwise  *)
(* it is removed with exactly one warning, of the kind of the answer.      *)
C33_EveryRecordHealthChecked ==
    [][\A p \in Procs :
         (Writing(p) /\ OneUpsert(p)) => HealthChecked(p)]_vars

(* C33, the part that holds: the same for every record whose field names   *)
(* are those of its notetype, whose fields are therefore written.          *)
C33_WrittenRecordHealthChecked ==
    [][\A p \in Procs :
         (Writing(p) /\ OneUpsert(p) /\ FieldsFit(p)) => HealthChecked(p)]_vars

(* C33, the state that refutes it: the write step has left in the copy a   *)
(* record with an empty first field, which the check answers 1 for, and    *)
(* no health warning.                                                      *)
C33_EmptyRecordKept ==
    \E p \in Procs :
        /\ pc[p] = "backup"
        /\ \E n \in loc[p].new_col.notes :
             /\ n.txt = ""
             /\ fields_check(loc[p].new_col.notes, n.nid) = 1
        /\ \A w \in loc[p].warnings : w.kind \notin HealthKinds

(***************************************************************************)
(* C39: the digest input of get_guid.                                      *)
(***************************************************************************)
(* The two notes have been parsed.                                         *)
BothParsed == flatnotes.todo = <<>> /\ Len(flatnotes.contents) = 2

(* C39: two different lists of fields never give the same digest input.    *)
C39_JoinIdentifiesFields ==
    BothParsed => flatnotes.contents[1] /= flatnotes.contents[2]

(* C39, the part that holds: lists of one field each give different digest *)
(* inputs, the field itself being the input.                               *)
C39_OneFieldIdentified ==
    [][(Len(flatnotes.todo) = 2 /\ Len(flatnotes.todo[1]) = 1
          /\ Len(flatnotes.todo[2]) = 1)
         => contents(flatnotes.todo[1]) /= contents(flatnotes.todo[2])]_vars

(* C39, the state that refutes it: two notes of different fields have      *)
(* been parsed and their digest inputs are the same text.                  *)
C39_SameInputDifferentFields ==
    BothParsed /\ flatnotes.contents[1] = flatnotes.contents[2]

(***************************************************************************)
(* diff2 entry by entry.  A diff entry is [change_type, a_path, b_path];   *)
(* a path is its sequence of parts, <<>> where git gives none; a root maps *)
(* the paths of its files to their contents.  a_root is the copy of the    *)
(* previous commit, b_root the working tree of the repository.             *)
(***************************************************************************)
GIT == ".git"
GITMODULES_FILE == ".gitmodules"
KI == ".ki"
GITIGNORE_FILE == ".gitignore"
MODELS_FILE == "models.json"
IGNORE_DIRS == {GIT, KI, MEDIA}
IGNORE_FILES == {GITIGNORE_FILE, GITMODULES_FILE, MODELS_FILE}

(* An empty file, as touch leaves it.                                      *)
Dummy == [guid |-> "", txt |-> "", model |-> "", keys |-> <<>>]

(* A note file as ki writes it.                                            *)
NoteFile(guid) ==
    [guid |-> guid, txt |-> "a", model |-> "Basic", keys |-> BasicFlds]

(* path.name and path.suffix.                                              *)
name(path) == path[Len(path)]
MdNames == {"a.md", "b.md"}
suffix(path) == IF name(path) \in MdNames THEN ".md" ELSE ""

(* The line that opens and closes the header block of a note file.         *)
Fence == "[fence]"

(* The lines of a file: a note file has its header and at least eight      *)
(* lines, an empty file has none.                                          *)
lines(file) ==
    IF file = Dummy THEN <<>>
    ELSE <<"# Note", Fence, "guid: " \o file.guid, "notetype: " \o file.model,
           Fence, "", "## " \o file.keys[1], file.txt>>

(* is_anki_note: the suffix is .md, there are at least eight lines, and    *)
(* the first three are the header of a note.                               *)
is_anki_note(path, file) ==
    /\ suffix(path) = ".md"
    /\ Len(lines(file)) >= 8
    /\ lines(file)[1] = "# Note"
    /\ lines(file)[2] = Fence
    /\ lines(file)[3] = "guid: " \o file.guid

(* F.isfile and F.chk of root / path.                                      *)
isfile(root, path) == path \in DOMAIN root

(* An is_ignorable that looks at the path alone and never at the file.     *)
is_ignorable_by_path(root, path) ==
    \/ name(path) \in IGNORE_FILES \cup IGNORE_DIRS
    \/ Range(path) \cap IGNORE_DIRS /= {}

(* is_ignorable: a reserved name, a reserved directory among the parts,    *)
(* or an existing file that is not a note.                                 *)
is_ignorable(root, path) ==
    \/ name(path) \in IGNORE_FILES \cup IGNORE_DIRS
    \/ Range(path) \cap IGNORE_DIRS /= {}
    \/ isfile(root, path) /\ ~is_anki_note(path, root[path])

(* a, b = a if a else b, b if b else a                                     *)
a_rel(d) == IF d.a_path /= <<>> THEN d.a_path ELSE d.b_path
b_rel(d) == IF d.b_path /= <<>> THEN d.b_path ELSE d.a_path

(* A mungediff that never looks whether the file of the entry is there.    *)
mungediff_entry_unchecked(a_root, b_root, d) ==
    LET a == a_rel(d)
        b == b_rel(d)
        File(root, path) == IF isfile(root, path) THEN root[path] ELSE Dummy
    IN  IF is_ignorable(a_root, a) \/ is_ignorable(b_root, b) THEN <<>>
        ELSE IF d.change_type = DELETED
        THEN <<Delta(DELETED, a, File(a_root, a))>>
        ELSE <<Delta(d.change_type, b, File(b_root, b))>>

(* mungediff for one diff entry: the deltas and warnings it yields.        *)
mungediff_entry(a_root, b_root, d) ==
    LET a == a_rel(d)
        b == b_rel(d)
    IN  IF is_ignorable(a_root, a) \/ is_ignorable(b_root, b) THEN <<>>
        ELSE IF d.change_type = DELETED
        THEN IF ~isfile(a_root, a)
             THEN <<Warning("DeletedFileNotFoundWarning", a)>>
             ELSE <<Delta(DELETED, a, a_root[a])>>
        ELSE IF ~isfile(b_root, b)
        THEN <<Warning("DiffTargetFileNotFoundWarning", b)>>
        ELSE IF d.change_type = RENAMED /\ isfile(a_root, a)
                /\ a_root[a].guid /= b_root[b].guid
        THEN <<Delta(DELETED, a, a_root[a]), Delta(ADDED, b, b_root[b])>>
        ELSE <<Delta(d.change_type, b, b_root[b])>>

(* The renamed entry whose old file is gone: parsing it raises.            *)
mungediff_entry_raises(a_root, b_root, d) ==
    LET a == a_rel(d)
        b == b_rel(d)
    IN  /\ ~is_ignorable(a_root, a) /\ ~is_ignorable(b_root, b)
        /\ d.change_type = RENAMED
        /\ isfile(b_root, b)
        /\ ~isfile(a_root, a)

IsDelta(x) == "status" \in DOMAIN x
IsWarning(x) == "kind" \in DOMAIN x
Deltas(out) == {i \in DOMAIN out : IsDelta(out[i])}
Warnings(out) == {i \in DOMAIN out : IsWarning(out[i])}

(* The paths, files, roots and entries the diffs are drawn from.           *)
DiffPaths ==
    {<<"Default", "a.md">>, <<"Default", "b.md">>, <<"dummy_file">>,
     <<KI, "a.md">>, <<MEDIA, "a.md">>, <<MODELS_FILE>>,
     <<"Default", GITIGNORE_FILE>>}
DiffFiles == {NoteFile("g1"), NoteFile("g2"), Dummy}
Roots(path) == {<<>>} \cup {path :> f : f \in DiffFiles}
DiffEntries ==
    {[change_type |-> c, a_path |-> x, b_path |-> x] :
        c \in {ADDED, DELETED, MODIFIED}, x \in DiffPaths}
    \cup {[change_type |-> ADDED, a_path |-> <<>>, b_path |-> x] :
            x \in DiffPaths}
    \cup {[change_type |-> DELETED, a_path |-> x, b_path |-> <<>>] :
            x \in DiffPaths}
    \cup {e \in {[change_type |-> RENAMED, a_path |-> x, b_path |-> y] :
                    x \in DiffPaths, y \in DiffPaths} :
            e.a_path /= e.b_path}

(* One diff entry between two roots, nothing read yet.                     *)
InitDiff ==
    /\ _clone({"posix"}, FALSE, 0)
    /\ wd = NoWalk
    /\ flatnotes = NoFlat
    /\ \E d \in DiffEntries :
       \E ra \in Roots(a_rel(d)), rb \in Roots(b_rel(d)) :
          munged = [NoDiff EXCEPT !.a_root = ra, !.b_root = rb,
                                  !.diffidx = <<d>>]

(* diff2: the next entry of the diff index goes through mungediff; an      *)
(* exception ends the pass.                                                *)
diff2_entry ==
    /\ munged.diffidx /= <<>>
    /\ munged.err = None
    /\ LET d == Head(munged.diffidx)
       IN  munged' =
             IF mungediff_entry_raises(munged.a_root, munged.b_root, d)
             THEN [munged EXCEPT !.err = "FileNotFoundError"]
             ELSE [munged EXCEPT
                      !.diffidx = Tail(@),
                      !.seen = Append(@, d),
                      !.out = @ \o mungediff_entry(munged.a_root,
                                                   munged.b_root, d)]
    /\ UNCHANGED <<unlocked, branches, dirty, target, cl, wd, flatnotes,
                   platform, colname, db, ledger, backups, lca_col, head, tag,
                   ncommits, lockHolder, clock, op, pc, err, result, loc,
                   lastOk, budget>>

(* push, once the diff is read: the warnings are printed, and with no      *)
(* deltas left the push reports up to date.                                *)
push_deltas ==
    /\ munged.seen /= <<>>
    /\ munged.diffidx = <<>>
    /\ munged.err = None
    /\ munged.result = None
    /\ munged' = [munged EXCEPT !.result = IF Deltas(munged.out) = {}
                                           THEN "UP_TO_DATE"
                                           ELSE "NONTRIVIAL"]
    /\ UNCHANGED <<unlocked, branches, dirty, target, cl, wd, flatnotes,
                   platform, colname, db, ledger, backups, lca_col, head, tag,
                   ncommits, lockHolder, clock, op, pc, err, result, loc,
                   lastOk, budget>>

NextDiff == diff2_entry \/ push_deltas

SpecDiff == InitDiff /\ [][NextDiff]_vars

(***************************************************************************)
(* The entry of the pass, and whether it has been through mungediff.       *)
(***************************************************************************)
Entry == IF munged.seen /= <<>> THEN munged.seen[1] ELSE munged.diffidx[1]
Passed == munged.seen /= <<>> \/ munged.err /= None
Ignored(d) ==
    \/ is_ignorable(munged.a_root, a_rel(d))
    \/ is_ignorable(munged.b_root, b_rel(d))

(* What an entry that was read must have yielded, by its change type and   *)
(* the presence of its files.                                              *)
YieldsByPresence(d) ==
    LET a == a_rel(d)
        b == b_rel(d)
    IN  /\ d.change_type = DELETED =>
              /\ munged.err = None
              /\ Deltas(munged.out) /= {} <=> isfile(munged.a_root, a)
              /\ isfile(munged.a_root, a) =>
                    munged.out = <<Delta(DELETED, a, munged.a_root[a])>>
              /\ ~isfile(munged.a_root, a) =>
                    munged.out = <<Warning("DeletedFileNotFoundWarning", a)>>
        /\ d.change_type /= DELETED /\ ~isfile(munged.b_root, b) =>
              /\ munged.err = None
              /\ munged.out = <<Warning("DiffTargetFileNotFoundWarning", b)>>

(* C31: a Deleted diff entry yields Delta(Deleted) if and only if the file *)
(* exists in the old snapshot, and otherwise exactly one                   *)
(* DeletedFileNotFoundWarning; an entry of any other change type whose new *)
(* file is absent yields exactly one DiffTargetFileNotFoundWarning and no  *)
(* Delta; the pass is not aborted in either case.  As stated, for every    *)
(* diff entry.                                                             *)
C31_EveryEntryByPresence == Passed => YieldsByPresence(Entry)

(* C31, for the diff entries that are not ignored: the same yields, by     *)
(* change type and presence of the file, without the pass being aborted.   *)
C31_TrackedEntryByPresence ==
    Passed /\ ~Ignored(Entry) => YieldsByPresence(Entry)

(* A Deleted entry of a note path whose old file is gone has been read and *)
(* has left its warning.                                                   *)
C31_DeletedFileNotFound ==
    /\ Passed
    /\ ~Ignored(Entry)
    /\ Entry.change_type = DELETED
    /\ ~isfile(munged.a_root, a_rel(Entry))
    /\ Warnings(munged.out) /= {}
    /\ munged.result = "UP_TO_DATE"

(* A reserved name, or a reserved directory above the file.                *)
ReservedPath(path) ==
    \/ name(path) \in IGNORE_DIRS \cup IGNORE_FILES
    \/ \E i \in 1..(Len(path) - 1) : path[i] \in IGNORE_DIRS
NotARecord(root, path) ==
    isfile(root, path) /\ ~is_anki_note(path, root[path])
Untracked(d) ==
    \/ ReservedPath(a_rel(d)) \/ ReservedPath(b_rel(d))
    \/ NotARecord(munged.a_root, a_rel(d))
    \/ NotARecord(munged.b_root, b_rel(d))

(* C32: a diff entry whose old or new path has a reserved name or lies     *)
(* under a reserved directory, or whose existing file on either side is    *)
(* not a note file, yields neither a Delta nor a Warning; no entry yields  *)
(* more than two Deltas; and a push whose diff holds only such entries     *)
(* reports up to date.                                                     *)
C32_UntrackedYieldNothing ==
    Passed =>
        /\ Untracked(Entry) =>
              /\ munged.out = <<>>
              /\ munged.err = None
              /\ munged.result \in {None, "UP_TO_DATE"}
        /\ Cardinality(Deltas(munged.out)) <= 2 * Len(munged.seen)

(* An empty file that is no note was added, and the push is up to date.    *)
C32_DummyFileUpToDate ==
    /\ Passed
    /\ Entry.change_type = ADDED
    /\ b_rel(Entry) = <<"dummy_file">>
    /\ isfile(munged.b_root, b_rel(Entry))
    /\ munged.out = <<>>
    /\ munged.result = "UP_TO_DATE"
====
